---- MODULE Spec2Model ----
(***************************************************************************)
(* Model of the tick loop of backend/app/services/game_loop.py             *)
(* (MainGameLoop) and of the pydantic models it mutates.                   *)
(*                                                                         *)
(* Representation.  The world is a line: a Position2D is modelled by its   *)
(* x coordinate, so calculate_distance is |x1 - x2|.  Positions and the    *)
(* attributes health/hunger/stamina are fixed-point numbers in hundredths  *)
(* (Unit = 100 stands for 1.0).  Clock values and durations are in         *)
(* thousandths of the clock unit (Milli = 1000 stands for 1.0 of           *)
(* TimeSystem.get_current_time).  Python None is NULL for strings, NoTime  *)
(* for times and NoPos for positions.                                      *)
(*                                                                         *)
(* One iteration of main_loop is the sequence of steps                     *)
(*   UpdateTime, ProcessNpc (once per NPC), SocialInteractions,            *)
(*   ProcessBeast (once per beast), ProcessResources, ProcessBuildings     *)
(* and pc/idx hold the position of the loop inside the iteration.          *)
(***************************************************************************)
EXTENDS Integers, Sequences, FiniteSets, TLC

\* ------------------------------------------------------------------ bounds
MaxTicks == 4            \* iterations of main_loop explored
MaxDecisions == 2        \* free decisions of the provider; later ones are "rest"
MaxDraws == 1            \* low-probability random draws that succeed
DeltaTime == 16          \* seconds of wall clock between two iterations

\* --------------------------------------------------------------- constants
Unit == 100
Milli == 1000
NULL == "none"
NoTime == 0 - 1
NoPos == 0 - 1

NpcOrder == <<"n1", "n2">>          \* world_state.npcs, in list order
NPCs == {NpcOrder[i] : i \in 1..Len(NpcOrder)}
ResOrder == <<"r1", "r2">>          \* world_state.resources, in list order
Resources == {ResOrder[i] : i \in 1..Len(ResOrder)}
Items == {"wood", "stone", "berry", "water", "raw_meat"}
GlobalKeys == {"wood", "stone", "berry", "water", "meat"}
SkillNames == {"combat", "construction", "social", "woodcutting", "foraging", "mining"}

GATHER_RANGE == 200
ATTACK_RANGE == 250
SOCIAL_RANGE == 500
SPEAR_RANGE == 450
BASE_SPEED == 200
npc_decision_interval == 30000
beast_decision_interval == 30000
weather_check_interval == 1800000
MemoryTrimAt == 30
MemoryKeep == 20
OperatorCap == 50
EventCap == 100

\* ----------------------------------------------------------------- helpers
Min(x, y) == IF x < y THEN x ELSE y
Max(x, y) == IF x > y THEN x ELSE y
Abs(x) == IF x < 0 THEN 0 - x ELSE x
LastN(s, n) == IF Len(s) <= n THEN s ELSE SubSeq(s, Len(s) - n + 1, Len(s))
SeqToSet(s) == {s[i] : i \in 1..Len(s)}

\* PhysicsEngine.calculate_distance on the line
CalculateDistance(p, q) == Abs(q - p)

IsInRange(p, q, range) == CalculateDistance(p, q) <= range

CanGatherNoRangeCheck(p, q) == TRUE
\* PhysicsEngine.can_gather
CanGather(p, q) == IsInRange(p, q, GATHER_RANGE)

\* TimeSystem.get_current_time (thousandths)
GetCurrentTime(t) == (t.day * 24 * 60 + t.hour * 60 + t.minute) * Milli

\* "if len(npc.memories) > 30: npc.memories = npc.memories[-20:]"
\* a log that is never trimmed
KeepAllMemories(n) == n

\* "if len(npc.memories) > 30: npc.memories = npc.memories[-20:]"
TrimMemories(n) ==
    [n EXCEPT !.memories = IF Len(@) > MemoryTrimAt THEN LastN(@, MemoryKeep) ELSE @]

\* npc.memories.append(memory); a memory is modelled by the kind of its text
Remember(n, tag) == [n EXCEPT !.memories = Append(@, tag)]

\* append immediately followed by the trim
AddMemory(n, tag) == TrimMemories(Remember(n, tag))

\* WorldState2D.add_event
AddEvent(w, type, related) ==
    LET e == Append(w.events, [type |-> type, related_npcs |-> related])
    IN [w EXCEPT !.events = IF Len(e) > EventCap THEN LastN(e, EventCap) ELSE e]

\* dict.get(key, 0) on npc.inventory
HasWeapon(n) == "spear" \in n.equipment \/ n.inventory["stone"] > 0

\* NPC2D.needs_urgent_action
NeedsUrgentAction(n) ==
    n.health < 30 * Unit \/ n.hunger > 80 * Unit \/ n.stamina < 10 * Unit

\* ------------------------------------------------------------------- state
VARIABLES
    time,                  \* world_state.time: [day, hour, minute]
    weather,               \* world_state.weather
    last_weather_check,    \* MainGameLoop.last_weather_check
    npcs,                  \* world_state.npcs: id -> NPC2D
    npc_last_decision,     \* MainGameLoop.npc_last_decision
    resources,             \* world_state.resources: id -> ResourceNode
    beasts,                \* world_state.beasts: list of Beast
    beast_last_decision,   \* MainGameLoop.beast_last_decision
    buildings,             \* world_state.buildings: list of Building2D
    active_conversations,  \* MainGameLoop.active_conversations: set of Conversation
    events,                \* world_state.events
    global_resources,      \* world_state.global_resources
    next_id,               \* source of fresh uuid ids
    pc,                    \* position of main_loop inside the iteration
    idx,                   \* index of the for loop in process_npcs / process_beasts
    ticks,                 \* iterations of main_loop completed
    decisions,             \* free decisions of the provider so far
    draws,                 \* low-probability random draws that succeeded so far
    is_running,            \* MainGameLoop.is_running
    waiting_for_client,    \* MainGameLoop.waiting_for_client
    stopped,               \* stop() has logged "Game loop stopped"
    loop,                  \* position of the start_game / main_loop task
    commands               \* operator memory commands handled so far

vars == <<time, weather, last_weather_check, npcs, npc_last_decision, resources,
          beasts, beast_last_decision, buildings, active_conversations, events,
          global_resources, next_id, pc, idx, ticks, decisions, draws,
          is_running, waiting_for_client, stopped, loop, commands>>

\* the state of the start_game / main_loop task, and the rest
life == <<is_running, waiting_for_client, stopped, loop>>
game == <<time, weather, last_weather_check, npcs, npc_last_decision, resources,
          beasts, beast_last_decision, buildings, active_conversations, events,
          global_resources, next_id, pc, idx, ticks, decisions, draws, commands>>

\* The mutable world as one record, so that the Python methods can be written
\* as functions from world to world and composed in program order.
World ==
    [npcs |-> npcs, npc_last_decision |-> npc_last_decision, resources |-> resources,
     beasts |-> beasts, beast_last_decision |-> beast_last_decision,
     buildings |-> buildings, active_conversations |-> active_conversations,
     events |-> events, global_resources |-> global_resources, next_id |-> next_id,
     weather |-> weather, raised |-> FALSE]

SetWorld(w) ==
    /\ npcs' = w.npcs
    /\ npc_last_decision' = w.npc_last_decision
    /\ resources' = w.resources
    /\ beasts' = w.beasts
    /\ beast_last_decision' = w.beast_last_decision
    /\ buildings' = w.buildings
    /\ active_conversations' = w.active_conversations
    /\ events' = w.events
    /\ global_resources' = w.global_resources
    /\ next_id' = w.next_id

\* an occupation that nothing releases
KeepResourceOccupation(w, a) == w

\* ------------------------------------------------------ resource occupancy
\* MainGameLoop.release_resource_occupation
ReleaseResourceOccupation(w, a) ==
    LET n == w.npcs[a]
    IN IF n.current_action = "gather" /\ n.action_target # NULL /\ n.action_target # ""
          /\ n.action_target \in Resources
          /\ w.resources[n.action_target].occupied_by = a
       THEN [w EXCEPT !.resources[n.action_target].occupied_by = NULL]
       ELSE w

\* ------------------------------------------------------------------- death
HandleNpcDeathBodyKeepsLifecycle(w, a) ==
    AddEvent([w EXCEPT !.npcs[a].is_alive = FALSE,
                       !.npcs[a].current_action = NULL,
                       !.npcs[a].is_moving = FALSE,
                       !.npcs[a].move_target = NoPos],
             "npc_death", <<a>>)
\* body of MainGameLoop._handle_npc_death under "if npc.is_alive:"
HandleNpcDeathBody(w, a) ==
    LET w1 == [w EXCEPT !.npcs[a].is_alive = FALSE,
                        !.npcs[a].action_state = "dead",
                        !.npcs[a].current_action = NULL,
                        !.npcs[a].is_moving = FALSE,
                        !.npcs[a].move_target = NoPos]
        w2 == AddEvent(w1, "npc_death", <<a>>)
        Sees(o) == /\ o # a
                   /\ w2.npcs[o].is_alive
                   /\ CalculateDistance(w2.npcs[a].position, w2.npcs[o].position) < 20 * Unit
    IN [w2 EXCEPT !.npcs = [o \in NPCs |->
            IF Sees(o) THEN AddMemory(w2.npcs[o], "witness_death") ELSE w2.npcs[o]]]

HandleNpcDeathNoGuard(w, a) == HandleNpcDeathBody(w, a)
\* MainGameLoop._handle_npc_death
HandleNpcDeath(w, a) ==
    IF w.npcs[a].is_alive THEN HandleNpcDeathBody(w, a) ELSE w

\* -------------------------------------------------------------- attributes
\* weather_effects in update_npc_attributes, in percent
StaminaMult(wt) == IF wt = "rain" THEN 70 ELSE IF wt = "storm" THEN 50 ELSE 100
HealthMult(wt) == IF wt = "rain" THEN 90 ELSE IF wt = "storm" THEN 80 ELSE 100

\* index of the first completed shelter within 10 units, 0 if none
\* (the for loop with "break" in update_npc_attributes)
FirstShelter(w, a) ==
    LET ok(i) == /\ w.buildings[i].is_complete
                 /\ w.buildings[i].provides_shelter
                 /\ CalculateDistance(w.npcs[a].position, w.buildings[i].position) < 10 * Unit
        S == {i \in 1..Len(w.buildings) : ok(i)}
    IN IF S = {} THEN 0 ELSE CHOOSE i \in S : \A j \in S : i <= j

\* the micro-movement at the end of update_npc_attributes; dx = 0 when the
\* 15% draw fails
MicroMove(n, dx) ==
    IF dx = 0 THEN n
    ELSE [n EXCEPT !.position = Max(5 * Unit, Min(95 * Unit, n.position + dx))]

\* MainGameLoop.update_npc_attributes
UpdateNpcAttributes(w, a, dx) ==
    LET n0 == w.npcs[a]
        hunger1 == Min(100 * Unit, n0.hunger + 5)
        health1 == IF hunger1 > 90 * Unit THEN Max(0, n0.health - 5) ELSE n0.health
        sh == FirstShelter(w, a)
        stamina_regen == IF sh = 0 THEN (150 * StaminaMult(w.weather)) \div 100
                         ELSE 150 + w.buildings[sh].stamina_regen_bonus
        health_regen == IF sh = 0 THEN (80 * HealthMult(w.weather)) \div 100
                        ELSE 80 + w.buildings[sh].health_regen_bonus
        stamina2 == IF n0.current_action = "rest"
                        THEN Min(100 * Unit, n0.stamina + stamina_regen)
                    ELSE IF n0.current_action # NULL /\ n0.current_action # ""
                            /\ n0.current_action # "idle"
                        THEN Max(0, n0.stamina - 15)
                    ELSE Min(100 * Unit, n0.stamina + 20)
        health2 == IF n0.current_action = "rest"
                        THEN Min(100 * Unit, health1 + health_regen)
                   ELSE health1
        health3 == IF stamina2 < 10 * Unit THEN Max(0, health2 - 2) ELSE health2
        w1 == [w EXCEPT !.npcs[a].hunger = hunger1,
                        !.npcs[a].stamina = stamina2,
                        !.npcs[a].health = health3]
    IN IF health3 <= 0 THEN HandleNpcDeath(w1, a)
       ELSE [w1 EXCEPT !.npcs[a] = MicroMove(@, dx)]

\* ---------------------------------------------------------------- movement
\* MovementSystem.get_npc_speed
GetNpcSpeed(n) ==
    LET m1 == IF n.stamina < 30 * Unit THEN 70
              ELSE IF n.stamina > 70 * Unit THEN 120 ELSE 100
        m2 == IF n.health < 50 * Unit THEN 80 ELSE 100
    IN (BASE_SPEED * m1 * m2) \div 10000

\* MovementSystem.move_towards_target with delta_time = 1.0;
\* the result is <<arrived, new position>>
MoveTowardsTarget(p, target, speed) ==
    LET distance == CalculateDistance(p, target)
    IN IF distance < 10 THEN <<TRUE, p>>
       ELSE IF speed >= distance THEN <<TRUE, target>>
       ELSE <<FALSE, Max(0, Min(100 * Unit,
                IF target > p THEN p + speed ELSE p - speed))>>

\* the "if npc.is_moving and npc.move_target" branch of process_npcs
MoveNpc(w, a) ==
    LET n == w.npcs[a]
        r == MoveTowardsTarget(n.position, n.move_target, GetNpcSpeed(n))
    IN [w EXCEPT !.npcs[a].position = r[2],
                 !.npcs[a].is_moving = IF r[1] THEN FALSE ELSE @,
                 !.npcs[a].move_target = IF r[1] THEN NoPos ELSE @]

ShouldMakeDecisionInAnyState(w, a, now) ==
    LET n == w.npcs[a]
    IN /\ ~n.in_conversation
       /\ \/ NeedsUrgentAction(n)
          \/ now - w.npc_last_decision[a] >= npc_decision_interval

\* MainGameLoop.should_make_decision
ShouldMakeDecision(w, a, now) ==
    LET n == w.npcs[a]
    IN /\ ~n.in_conversation
       /\ n.action_state = "idle"
       /\ \/ NeedsUrgentAction(n)
          \/ now - w.npc_last_decision[a] >= npc_decision_interval

\* ---------------------------------------------------------------- dispatch
\* dict.get(item, 0) on an inventory
InvGet(n, item) == IF item \in Items THEN n.inventory[item] ELSE 0

\* npc.skills.get(name, 0)
SkillGet(n, name) == IF name \in SkillNames THEN n.skills[name] ELSE 0

Truthy(s) == s # NULL /\ s # ""

\* base_times in calculate_action_duration
BaseTime(action) ==
    CASE action = "gather" -> 12000
      [] action = "flee" -> 3000
      [] action = "share" -> 5000
      [] action = "rest" -> 25000
      [] action = "eat" -> 6000
      [] action = "explore" -> 18000
      [] action = "build" -> 999999000
      [] action = "hunt" -> 30000
      [] OTHER -> 10000

\* type_multipliers in calculate_action_duration, in tenths
TypeMultiplier(type) ==
    CASE type = "wood" -> 12
      [] type = "stone" -> 15
      [] type = "berry" -> 5
      [] type = "water" -> 6
      [] OTHER -> 10

\* relevant_skills in calculate_action_duration
RelevantSkill(action) ==
    CASE action = "gather" -> "gathering"
      [] action = "build" -> "construction"
      [] action = "hunt" -> "combat"
      [] OTHER -> NULL

\* "return max(5.0, min(120.0, duration))"
ClampDurationNoFloor(d) == Min(120 * Milli, d)
ClampDuration(d) == Max(5 * Milli, Min(120 * Milli, d))

\* MainGameLoop.calculate_action_duration.  The factors applied after the
\* resource adjustment are at least 0.5 and the result is capped at 120, so
\* an intermediate value above 1000 can be taken as 1000.
CalculateActionDuration(w, a, act) ==
    LET n == w.npcs[a]
        d0 == BaseTime(act.action)
        \* the resource is looked up by id == action.target
        d1 == IF act.action = "gather" /\ Truthy(act.target) /\ act.target \in Resources
              THEN LET r == w.resources[act.target]
                       t == (d0 * TypeMultiplier(r.type)) \div 10
                   IN (t * (r.max_quantity + r.quantity)) \div (2 * r.max_quantity)
              ELSE d0
        sk == RelevantSkill(act.action)
        d1c == Min(d1, 1000 * Milli)
        d2 == IF sk # NULL
              THEN (d1c * (1000 - Min(500, SkillGet(n, sk) * 5))) \div 1000
              ELSE d1c
        d3 == IF n.stamina < 30 * Unit THEN (d2 * 13) \div 10 ELSE d2
        d4 == IF n.health < 50 * Unit THEN (d3 * 12) \div 10 ELSE d3
    IN ClampDuration(d4)

\* the NPCs of a set ordered by distance from p, ties in list order
\* (list.sort(key=distance) is stable); the result is the first one
NearestOf(w, S, p) ==
    LET pos(i) == w.npcs[NpcOrder[i]].position
        I == {i \in 1..Len(NpcOrder) : NpcOrder[i] \in S}
        best == CHOOSE i \in I : \A j \in I :
                    \/ CalculateDistance(p, pos(i)) < CalculateDistance(p, pos(j))
                    \/ (CalculateDistance(p, pos(i)) = CalculateDistance(p, pos(j)) /\ i <= j)
    IN NpcOrder[best]

\* the candidates of initiate_conversation
NearbyNpcs(w, a) ==
    {o \in NPCs : /\ o # a
                  /\ ~w.npcs[o].in_conversation
                  /\ w.npcs[o].is_alive
                  /\ CalculateDistance(w.npcs[a].position, w.npcs[o].position) <= SOCIAL_RANGE}

\* conversation_partners = nearby_npcs[:1]
ConversationPartners(w, a) ==
    IF NearbyNpcs(w, a) = {} THEN <<>>
    ELSE <<NearestOf(w, NearbyNpcs(w, a), w.npcs[a].position)>>

\* MainGameLoop.initiate_conversation; plan is the provider's planned_action
\* (NoPlan when triggers_action is false or planned_action is missing)
InitiateConversation(w, a, now, plan) ==
    IF NearbyNpcs(w, a) = {}
    THEN [w EXCEPT !.npcs[a].action_state = "idle", !.npcs[a].current_action = NULL]
    ELSE LET participants == <<a>> \o ConversationPartners(w, a)
             cid == w.next_id
             conv == [id |-> cid, participants |-> participants,
                      started_at |-> now, planned_action |-> plan]
             w1 == [w EXCEPT
                      !.npcs = [o \in NPCs |->
                          IF o \in SeqToSet(participants)
                          THEN [w.npcs[o] EXCEPT !.in_conversation = TRUE,
                                                 !.conversation_id = cid]
                          ELSE w.npcs[o]],
                      !.active_conversations = @ \cup {conv},
                      !.next_id = @ + 1]
         IN AddEvent(w1, "conversation_start", participants)

\* is_available in the gather branch of execute_action
IsAvailableIgnoringOccupant(w, r, a, type) ==
    /\ w.resources[r].type = type
    /\ ~w.resources[r].is_depleted
IsAvailable(w, r, a, type) ==
    /\ w.resources[r].type = type
    /\ ~w.resources[r].is_depleted
    /\ (w.resources[r].occupied_by = NULL \/ w.resources[r].occupied_by = a)

\* nearest available resource of the type, first in list order on ties
\* ("if distance < min_distance"); NULL if none
NearestResource(w, a, type) ==
    LET d(i) == CalculateDistance(w.npcs[a].position, w.resources[ResOrder[i]].position)
        I == {i \in 1..Len(ResOrder) : IsAvailable(w, ResOrder[i], a, type)}
    IN IF I = {} THEN NULL
       ELSE ResOrder[CHOOSE i \in I : \A j \in I : d(i) < d(j) \/ (d(i) = d(j) /\ i <= j)]

\* the gather branch of "Move NPC towards target if needed" in execute_action
DispatchGather(w, a, type) ==
    LET r == NearestResource(w, a, type)
    IN IF r # NULL
       THEN LET distance == CalculateDistance(w.npcs[a].position, w.resources[r].position)
                w1 == [w EXCEPT !.resources[r].occupied_by = a,
                                !.npcs[a].action_target = r]
            IN IF distance > 2 * Unit
               THEN [w1 EXCEPT !.npcs[a].is_moving = TRUE,
                               !.npcs[a].move_target = w.resources[r].position]
               ELSE w1
       ELSE [w EXCEPT !.npcs[a].action_state = "idle", !.npcs[a].current_action = NULL]

\* attack range of an NPC: ATTACK_RANGE, 4.5 with a spear
AttackRange(n) == IF "spear" \in n.equipment THEN SPEAR_RANGE ELSE ATTACK_RANGE

\* index of the nearest beast, first in list order on ties; 0 if no beast
NearestBeast(w, p) ==
    LET d(i) == CalculateDistance(p, w.beasts[i].position)
        I == 1..Len(w.beasts)
    IN IF I = {} THEN 0
       ELSE CHOOSE i \in I : \A j \in I : d(i) < d(j) \/ (d(i) = d(j) /\ i <= j)

\* the hunt/defend branch of "Move NPC towards target if needed"
DispatchHunt(w, a, target) ==
    LET n == w.npcs[a]
        M == IF Truthy(target)
             THEN {i \in 1..Len(w.beasts) :
                      w.beasts[i].id = target \/ w.beasts[i].type = target}
             ELSE {}
        bi == IF M # {} THEN CHOOSE i \in M : \A j \in M : i <= j
              ELSE NearestBeast(w, n.position)
    IN IF bi = 0
       THEN [w EXCEPT !.npcs[a].action_state = "idle", !.npcs[a].current_action = NULL]
       ELSE LET b == w.beasts[bi]
                distance == CalculateDistance(n.position, b.position)
                range == AttackRange(n)
                w1 == [w EXCEPT !.npcs[a].action_target = b.id]
                margin == (range * 8) \div 10
                tx == IF b.position > n.position THEN b.position - margin
                      ELSE b.position + margin
            IN IF distance > range
               THEN [w1 EXCEPT !.npcs[a].is_moving = TRUE, !.npcs[a].move_target = tx]
               ELSE w1

\* the explore branch: position += random.uniform(-5, 5), kept within bounds
DispatchExplore(w, a, dir) ==
    [w EXCEPT !.npcs[a].position = Max(5 * Unit, Min(95 * Unit, @ + dir * 5 * Unit))]

\* is_aggressive of Beast
IsAggressive(b) == b.aggression > 50

\* threats of _calculate_smart_escape_direction
Threats(w, a) ==
    {i \in 1..Len(w.beasts) :
        /\ IsAggressive(w.beasts[i])
        /\ CalculateDistance(w.npcs[a].position, w.beasts[i].position) < 40 * Unit
        /\ CalculateDistance(w.npcs[a].position, w.beasts[i].position) > 0}

\* the flee branch with _calculate_smart_escape_direction.  With a threat and
\* a building in the world the loop over buildings reads building.is_completed,
\* which Building2D does not define: AttributeError.  With a threat and no
\* building the escape point is 15 units away from the danger, kept in
\* [10, 90]; the pull of allies and of the map border is weaker than the push
\* of the danger vector, which on the line points away from the nearest
\* threat.  Without a threat the escape point is random.uniform(-10, 10)
\* away.  The result is kept in [5, 95].
DangerSide(w, a) ==
    LET p == w.npcs[a].position
        d(i) == CalculateDistance(p, w.beasts[i].position)
        near == CHOOSE i \in Threats(w, a) : \A j \in Threats(w, a) : d(i) <= d(j)
    IN IF w.beasts[near].position > p THEN 1 ELSE 0 - 1

DispatchFlee(w, a, dir) ==
    IF Threats(w, a) # {} /\ Len(w.buildings) > 0
    THEN [w EXCEPT !.raised = TRUE]
    ELSE LET p == w.npcs[a].position
             t == IF Threats(w, a) # {}
                  THEN Max(10 * Unit, Min(90 * Unit, p - DangerSide(w, a) * 15 * Unit))
                  ELSE p + dir * 10 * Unit
         IN [w EXCEPT !.npcs[a].position = Max(5 * Unit, Min(95 * Unit, t))]


\* ------------------------------------------------------------------- build
\* get_building_type: the definition of a building type, NULL for an unknown
\* type.  build_time is in ticks of process_buildings; the regeneration
\* bonuses are in hundredths.  Build targets are type ids, which
\* building_name_map of execute_action leaves as they are.
BuildingDef(t) ==
    CASE t = "campfire" ->
           [wood |-> 5, stone |-> 0, build_time |-> 60, provides_shelter |-> FALSE,
            health_regen_bonus |-> 0, stamina_regen_bonus |-> 0,
            requires_cooperation |-> FALSE]
      [] t = "lean_to" ->
           [wood |-> 10, stone |-> 5, build_time |-> 120, provides_shelter |-> TRUE,
            health_regen_bonus |-> 50, stamina_regen_bonus |-> 0,
            requires_cooperation |-> FALSE]
      [] t = "wooden_hut" ->
           [wood |-> 30, stone |-> 15, build_time |-> 240, provides_shelter |-> TRUE,
            health_regen_bonus |-> 100, stamina_regen_bonus |-> 50,
            requires_cooperation |-> TRUE]
      [] t = "storage_shed" ->
           [wood |-> 20, stone |-> 0, build_time |-> 150, provides_shelter |-> FALSE,
            health_regen_bonus |-> 0, stamina_regen_bonus |-> 0,
            requires_cooperation |-> FALSE]
      [] t = "workshop" ->
           [wood |-> 15, stone |-> 10, build_time |-> 180, provides_shelter |-> FALSE,
            health_regen_bonus |-> 0, stamina_regen_bonus |-> 0,
            requires_cooperation |-> TRUE]
      [] OTHER -> NULL

BuildingTypes == {"campfire", "lean_to", "wooden_hut", "storage_shed", "workshop"}
UniqueBuildingTypes == {"campfire", "lean_to", "wooden_hut"}

\* "idle, current_action = None, return" of the failing branches
CancelAction(w, a) ==
    [w EXCEPT !.npcs[a].action_state = "idle", !.npcs[a].current_action = NULL]

\* Building2D(...) of execute_action.  construction_progress is kept as the
\* integer progress, in units of 1 / (2 * build_time_total).
NewBuilding(id, t, pos, a) ==
    [id |-> id, type |-> t, position |-> pos, is_complete |-> FALSE,
     progress |-> 0, build_time_total |-> BuildingDef(t).build_time,
     builders |-> <<a>>,
     requires_cooperation |-> BuildingDef(t).requires_cooperation,
     provides_shelter |-> BuildingDef(t).provides_shelter,
     health_regen_bonus |-> BuildingDef(t).health_regen_bonus,
     stamina_regen_bonus |-> BuildingDef(t).stamina_regen_bonus]

ConsumeNothing(inventory, def) == inventory

\* "for material, amount in requirements.items()": the materials leave the
\* inventory; a deleted key reads as 0
ConsumeMaterials(inventory, def) ==
    [inventory EXCEPT !["wood"] = @ - def.wood, !["stone"] = @ - def.stone]

\* the build branch of execute_action; the result is <<world, returned>>
\* where returned tells that the branch left execute_action with "return"
DispatchBuild(w, a, target, dir) ==
    LET n == w.npcs[a]
        t == target
        def == BuildingDef(t)
        same == {i \in 1..Len(w.buildings) : w.buildings[i].type = t}
        dist(i) == CalculateDistance(n.position, w.buildings[i].position)
        has_completed_building ==
            \E i \in same : /\ w.buildings[i].is_complete
                            /\ (t \in UniqueBuildingTypes \/ dist(i) < 20 * Unit)
        incomplete == {i \in same : ~w.buildings[i].is_complete /\ dist(i) < 15 * Unit}
        nearest == CHOOSE i \in incomplete : \A j \in incomplete :
                       dist(i) < dist(j) \/ (dist(i) = dist(j) /\ i <= j)
    IN IF t \notin BuildingTypes THEN <<CancelAction(w, a), TRUE>>
       ELSE IF InvGet(n, "wood") < def.wood \/ InvGet(n, "stone") < def.stone
       THEN <<[CancelAction(w, a) EXCEPT !.npcs[a] = AddMemory(@, "build_attempt_failed")],
              TRUE>>
       ELSE IF has_completed_building THEN <<CancelAction(w, a), TRUE>>
       ELSE IF incomplete # {}
       THEN LET w1 == [w EXCEPT !.npcs[a].action_target = w.buildings[nearest].id]
            IN <<IF dist(nearest) > 3 * Unit
                 THEN [w1 EXCEPT !.npcs[a].is_moving = TRUE,
                                 !.npcs[a].move_target = w.buildings[nearest].position]
                 ELSE w1,
                 TRUE>>
       ELSE LET id == "b" \o ToString(w.next_id)
                pos == Max(5 * Unit, Min(95 * Unit, n.position + dir * Unit))
                w1 == [w EXCEPT
                         !.npcs[a].inventory = ConsumeMaterials(@, def),
                         !.npcs[a].action_target = id,
                         !.buildings = Append(@, NewBuilding(id, t, pos, a)),
                         !.next_id = @ + 1]
            IN <<AddEvent(w1, "build_start", <<a>>), FALSE>>

\* ---------------------------------------------------------- execute_action
\* The inputs of one call: what random.uniform and the conversation provider
\* return inside it.
\*   talk_duration  random.uniform(30, 45)
\*   plan           planned_action of the conversation
\*   dir            sign of the random offset of explore / flee / build
NoPlan == [action |-> NULL, target |-> NULL]

\* MainGameLoop.execute_action
ExecuteAction(w, a, act, now, inp) ==
    LET w0 == [w EXCEPT !.npcs[a].current_action = act.action,
                        !.npcs[a].action_target = act.target,
                        !.npcs[a].action_end_time = now + CalculateActionDuration(w, a, act),
                        !.npcs[a].action_state = "executing"]
        Finish(v) == IF v.raised THEN v ELSE AddEvent(v, "npc_action", <<a>>)
    IN CASE act.action = "talk" ->
              Finish([InitiateConversation(w0, a, now, inp.plan) EXCEPT
                         !.npcs[a].action_end_time = now + inp.talk_duration])
         [] act.action = "build" ->
              LET r == DispatchBuild(w0, a, act.target, inp.dir)
              IN IF r[2] THEN r[1] ELSE Finish(r[1])
         [] act.action = "gather" /\ Truthy(act.target) ->
              Finish(DispatchGather(w0, a, act.target))
         [] act.action = "explore" -> Finish(DispatchExplore(w0, a, inp.dir))
         [] act.action \in {"hunt", "defend"} -> Finish(DispatchHunt(w0, a, act.target))
         [] act.action = "flee" -> Finish(DispatchFlee(w0, a, inp.dir))
         [] OTHER -> Finish(w0)


\* ------------------------------------------------------------- completions
\* gather_amounts and the tool bonuses of complete_gather_action
GatherAmount(type, equipment) ==
    CASE type = "wood" -> IF "stone_axe" \in equipment THEN 7 ELSE 5
      [] type = "stone" -> IF "stone_pickaxe" \in equipment THEN 4 ELSE 3
      [] type = "berry" -> IF "basket" \in equipment THEN 13 ELSE 10
      [] type = "water" -> IF "water_container" \in equipment THEN 18 ELSE 15
      [] OTHER -> 5

\* skill_map of complete_gather_action
GatherSkill(type) ==
    CASE type = "wood" -> "woodcutting"
      [] type = "stone" -> "mining"
      [] type = "berry" -> "foraging"
      [] OTHER -> NULL

\* ResourceNode.gather: the amount actually taken from a node
GatherUncapped(quantity, amount) == amount
Gather(quantity, amount) == Min(amount, quantity)

\* MainGameLoop.complete_gather_action; the result is <<world, gathered>>
CompleteGatherAction(w, a, now) ==
    LET n == w.npcs[a]
        t == n.action_target
    IN IF ~Truthy(t) \/ t \notin Resources THEN <<w, FALSE>>
       ELSE LET r == w.resources[t]
            IN IF ~CanGather(n.position, r.position) THEN <<w, FALSE>>
               ELSE IF r.is_depleted THEN <<w, FALSE>>
               ELSE LET actual == Gather(r.quantity, GatherAmount(r.type, n.equipment))
                        left == r.quantity - actual
                        w1 == [w EXCEPT
                                 !.resources[t].quantity = left,
                                 !.resources[t].is_depleted = (left <= 0),
                                 !.resources[t].depleted_time =
                                     IF left <= 0 THEN now ELSE @,
                                 !.resources[t].occupied_by =
                                     IF @ = a THEN NULL ELSE @,
                                 !.npcs[a].inventory[r.type] = @ + actual,
                                 !.npcs[a].skills =
                                     IF GatherSkill(r.type) = NULL THEN @
                                     ELSE [@ EXCEPT ![GatherSkill(r.type)] = Min(100, @ + 1)],
                                 !.global_resources[r.type] = @ + actual]
                    IN <<IF left <= 0 THEN AddEvent(w1, "resource_depleted", <<>>) ELSE w1,
                         TRUE>>

\* food_effects of complete_eat_action: <<hunger, health, stamina>> in units
FoodEffects(food) ==
    CASE food = "berry" -> <<0 - 30, 5, 5>>
      [] food = "water" -> <<0 - 10, 2, 10>>
      [] food = "raw_meat" -> <<0 - 40, 3, 5>>
      [] food = "cooked_meat" -> <<0 - 60, 15, 10>>
      [] food \in {"wood", "stone"} -> <<0, 0, 0>>
      [] OTHER -> <<0 - 20, 3, 3>>

\* MainGameLoop.complete_eat_action
CompleteEatAction(w, a) ==
    LET n == w.npcs[a]
        food == IF Truthy(n.action_target) THEN n.action_target ELSE "berry"
        e == FoodEffects(food)
    IN IF InvGet(n, food) > 0
       THEN [w EXCEPT !.npcs[a].inventory[food] = @ - 1,
                      !.npcs[a].hunger = Max(0, @ + e[1] * Unit),
                      !.npcs[a].health = Min(100 * Unit, @ + e[2] * Unit),
                      !.npcs[a].stamina = Min(100 * Unit, @ + e[3] * Unit)]
       ELSE w

\* meat_amounts of complete_combat_action and _beast_attack_npc
MeatAmount(type) ==
    CASE type = "rabbit" -> 2
      [] type = "wolf" -> 3
      [] type = "bear" -> 5
      [] type = "deer" -> 4
      [] OTHER -> 2

\* list.remove(beast)
RemoveAt(s, i) == [j \in 1..(Len(s) - 1) |-> IF j < i THEN s[j] ELSE s[j + 1]]

\* total_damage of complete_combat_action, in hundredths
TotalDamage(n) ==
    LET weapon_bonus == IF "spear" \in n.equipment THEN 40
                        ELSE IF n.inventory["stone"] > 0 THEN 8 ELSE 0
        base == 15 * Unit + n.skills["combat"] * 80 + weapon_bonus * Unit
        stamina_factor == Max(70 * Unit, n.stamina)
        health_factor == Max(60 * Unit, n.health)
    IN (((base * stamina_factor) \div (100 * Unit)) * health_factor) \div (100 * Unit)

NeverDies(health) == FALSE

\* Beast.take_damage: "return self.health <= 0" for the health that is left
Dies(health) == health <= 0

\* MainGameLoop.complete_combat_action; the result is <<world, attacked>>
CompleteCombatAction(w, a) ==
    LET n == w.npcs[a]
        bi == NearestBeast(w, n.position)
    IN IF bi = 0 THEN <<w, FALSE>>
       ELSE LET b == w.beasts[bi]
            IN IF CalculateDistance(n.position, b.position) > AttackRange(n) + Unit
               THEN <<w, FALSE>>
               ELSE LET hp == b.health - TotalDamage(n)
                        w1 == [w EXCEPT
                                 !.beasts[bi].health = hp,
                                 !.npcs[a].stamina = Max(0, @ - 10 * Unit),
                                 !.npcs[a].skills["combat"] = Min(100, @ + 2)]
                    IN IF Dies(hp)
                       THEN <<AddEvent([w1 EXCEPT
                                          !.beasts = RemoveAt(@, bi),
                                          !.npcs[a].inventory["raw_meat"] =
                                              @ + MeatAmount(b.type)],
                                       "beast_killed", <<a>>),
                              TRUE>>
                       ELSE IF IsAggressive(b)
                       THEN <<[w1 EXCEPT !.npcs[a].health = Max(0, @ - b.damage \div 2)],
                              TRUE>>
                       ELSE <<w1, TRUE>>


\* the loop "for participant_id in conversation.participants" that dispatches
\* the planned action; an exception raised by execute_action ends it
RECURSIVE FanOut(_, _, _, _, _, _)
FanOut(w, parts, i, plan, now, inp) ==
    IF i > Len(parts) \/ w.raised THEN w
    ELSE LET p == parts[i]
             w1 == IF w.npcs[p].is_alive /\ w.npcs[p].action_state = "idle"
                   THEN ExecuteAction(w, p, plan, now, inp)
                   ELSE w
         IN FanOut(w1, parts, i + 1, plan, now, inp)

\* MainGameLoop.complete_conversation
CompleteConversation(w, a, now, inp) ==
    LET n == w.npcs[a]
        C == {c \in w.active_conversations : c.id = n.conversation_id}
        \* the "conversation_end" event and "del self.active_conversations[id]"
        Remove(conv, w2) ==
            IF w2.raised THEN w2
            ELSE [AddEvent(w2, "conversation_end", conv.participants) EXCEPT
                     !.active_conversations = @ \ {conv}]
        \* "if conversation.triggers_action and conversation.planned_action"
        Trigger(conv, w1) ==
            Remove(conv, IF conv.planned_action # NoPlan
                         THEN FanOut(w1, conv.participants, 1, conv.planned_action,
                                     now, inp)
                         ELSE w1)
        \* the memory, the flags and the social skill of every participant
        Finish(conv) ==
            Trigger(conv, [w EXCEPT !.npcs = [o \in NPCs |->
                          IF o \in SeqToSet(conv.participants)
                          THEN [AddMemory(w.npcs[o], "conversation") EXCEPT
                                   !.in_conversation = FALSE,
                                   !.conversation_id = 0,
                                   !.skills["social"] = Min(100, @ + 1)]
                          ELSE w.npcs[o]]])
    IN IF ~n.in_conversation \/ n.conversation_id = 0 \/ C = {} THEN w
       ELSE Finish(CHOOSE c \in C : TRUE)

\* whether _record_environmental_observation has something to record
CanObserve(w, a) ==
    LET p == w.npcs[a].position
    IN \/ \E r \in Resources : /\ ~w.resources[r].is_depleted
                               /\ CalculateDistance(p, w.resources[r].position) < 10 * Unit
       \/ \E i \in 1..Len(w.beasts) : CalculateDistance(p, w.beasts[i].position) < 12 * Unit
       \/ \E o \in NPCs \ {a} : CalculateDistance(p, w.npcs[o].position) < 8 * Unit

\* MainGameLoop.complete_npc_action.  inp.cooling is random.uniform(2.0, 5.0),
\* inp.observe the number of observations recorded after a gather.
CompleteNpcAction(w, a, now, inp) ==
    LET action_type == w.npcs[a].current_action
        Note(v, tag) == [v EXCEPT !.npcs[a] = Remember(@, tag)]
        \* "if success:" after complete_gather_action; r is <<world, gathered>>
        Gathered(r) ==
            IF r[2]
            THEN IF inp.observe > 0 /\ CanObserve(r[1], a)
                 THEN Note(Note(r[1], "gather"), "observation")
                 ELSE Note(r[1], "gather")
            ELSE r[1]
        \* "if hunt_result:" after complete_combat_action; r is <<world, attacked>>
        Hunted(r) == IF r[2] THEN Note(r[1], "hunt") ELSE r[1]
        \* the memory trim and the cooling period that end the method
        Cool(w1) ==
            IF w1.raised THEN w1
            ELSE [w1 EXCEPT !.npcs[a] = [TrimMemories(@) EXCEPT
                                            !.action_state = "cooling",
                                            !.action_end_time = now + inp.cooling]]
    IN Cool(CASE action_type = "gather" -> Gathered(CompleteGatherAction(w, a, now))
              [] action_type = "flee" -> Note(w, "flee")
              [] action_type = "talk" -> CompleteConversation(w, a, now, inp)
              [] action_type = "eat" -> Note(CompleteEatAction(w, a), "eat")
              [] action_type = "rest" -> Note(w, "rest")
              [] action_type \in {"hunt", "defend"} -> Hunted(CompleteCombatAction(w, a))
              [] OTHER -> w)

\* ------------------------------------------------------ decision provider
\* "min(nearby, key=distance)" over the nodes of a type within reach of the
\* NPC, depleted and occupied ones included; NULL when "nearby" is empty
ClosestNode(w, a, type, reach) ==
    LET d(i) == CalculateDistance(w.npcs[a].position, w.resources[ResOrder[i]].position)
        I == {i \in 1..Len(ResOrder) :
                 w.resources[ResOrder[i]].type = type /\ d(i) < reach}
    IN IF I = {} THEN NULL
       ELSE ResOrder[CHOOSE i \in I : \A j \in I : d(i) < d(j) \/ (d(i) = d(j) /\ i <= j)]

\* AIService._fallback_decision; a gather decision carries the id of the node
FallbackDecision(w, a) ==
    LET n == w.npcs[a]
        berries == ClosestNode(w, a, "berry", 20 * Unit)
        wood == ClosestNode(w, a, "wood", 30 * Unit)
    IN IF n.health < 30 * Unit THEN [action |-> "rest", target |-> NULL]
       ELSE IF n.hunger > 80 * Unit /\ InvGet(n, "berry") > 0
       THEN [action |-> "eat", target |-> "berry"]
       ELSE IF n.hunger > 80 * Unit /\ berries # NULL
       THEN [action |-> "gather", target |-> berries]
       ELSE IF n.stamina < 20 * Unit THEN [action |-> "rest", target |-> NULL]
       ELSE IF wood # NULL THEN [action |-> "gather", target |-> wood]
       ELSE [action |-> "explore", target |-> NULL]

\* what the call of the chat client may come to: it raises, it returns a text
\* that json.loads rejects, a JSON value that is not an object, or an object
ReplyKinds == {"raises", "text", "array", "object"}

\* AIService._parse_decision for a text that json.loads rejects
ParseFailure == [action |-> "rest", target |-> NULL]

\* AIService.generate_npc_decision with a client; decision is the object of
\* a reply of kind "object"
GenerateNpcDecision(w, a, kind, decision) ==
    CASE kind = "raises" -> FallbackDecision(w, a)
      [] kind = "array" -> FallbackDecision(w, a)
      [] kind = "text" -> ParseFailure
      [] OTHER -> decision

\* MainGameLoop.process_npc_decision; act is the provider's decision
ProcessNpcDecision(w, a, now, act, inp) ==
    LET \* "except Exception" around execute_action
        Caught(w1) ==
            IF w1.raised
            THEN [w1 EXCEPT !.raised = FALSE, !.npcs[a].current_action = "idle"]
            ELSE [w1 EXCEPT !.npc_last_decision[a] = now]
    IN Caught(ExecuteAction(w, a, act, now, inp))

\* the body of the loop of process_npcs for a living NPC
ProcessOneNpc(w, a, now, dx, act, inp) ==
    LET \* "if npc.action_state == 'executing' ... elif ... == 'cooling'"
        Timers(w2) ==
            LET n2 == w2.npcs[a]
                due == n2.action_end_time # NoTime /\ n2.action_end_time # 0
                       /\ now >= n2.action_end_time
            IN IF n2.action_state = "executing" /\ due
               THEN CompleteNpcAction(w2, a, now, inp)
               ELSE IF n2.action_state = "cooling" /\ due
               THEN [ReleaseResourceOccupation(w2, a) EXCEPT
                        !.npcs[a].action_state = "idle",
                        !.npcs[a].current_action = NULL,
                        !.npcs[a].action_target = NULL,
                        !.npcs[a].action_end_time = NoTime]
               ELSE w2
        \* "if npc.is_moving and npc.move_target ... elif should_make_decision"
        MoveOrDecide(w1) ==
            Timers(IF w1.npcs[a].is_moving /\ w1.npcs[a].move_target # NoPos
                   THEN MoveNpc(w1, a)
                   ELSE IF ShouldMakeDecision(w1, a, now)
                        THEN ProcessNpcDecision(w1, a, now, act, inp)
                        ELSE w1)
    IN MoveOrDecide(UpdateNpcAttributes(w, a, dx))


\* ------------------------------------------------------------------ beasts
attack_cooldown == 3000

\* "npc.attributes.health = max(0, npc.attributes.health - beast.damage)"
ApplyBeastDamageUnclamped(health, damage) == health - damage
ApplyBeastDamage(health, damage) == Max(0, health - damage)

\* the condition of the automatic counter-attack in _beast_attack_npc,
\* evaluated after the damage has been applied
CanCounterAttack(n) ==
    /\ n.is_alive
    /\ n.health > 20 * Unit
    /\ HasWeapon(n)
    /\ (n.bravery > 40 \/ n.health > 60 * Unit)
    /\ n.stamina > 20 * Unit

\* should_flee of _beast_attack_npc
ShouldFleeOnlyLowHealth(n) == n.health < 50 * Unit
ShouldFlee(n) ==
    \/ n.health < 50 * Unit
    \/ ("spear" \notin n.equipment /\ n.inventory["stone"] = 0)

InterruptsEveryVictim(n, counter) == TRUE
\* "if not counter_attack_success and npc.is_alive: ... if should_flee:"
MustInterrupt(n, counter) == ~counter /\ n.is_alive /\ ShouldFlee(n)

\* the forced interruption of the victim under "if should_flee:"
InterruptVictim(w, a) ==
    [ReleaseResourceOccupation(w, a) EXCEPT
        !.npcs[a].current_action = NULL,
        !.npcs[a].action_target = NULL,
        !.npcs[a].action_state = "idle",
        !.npcs[a].action_end_time = NoTime,
        !.npcs[a].is_moving = FALSE,
        !.npcs[a].move_target = NoPos]

\* a witness that remembers the attack and carries on
WitnessCarriesOn(w, o) == [w EXCEPT !.npcs[o] = AddMemory(@, "witness_attack")]

\* what a living NPC within 15 units of the victim goes through
Witness(w, o) ==
    LET w1 == [w EXCEPT !.npcs[o] = AddMemory(@, "witness_attack")]
        n == w1.npcs[o]
        can_help == n.health > 50 * Unit /\ HasWeapon(n)
    IN IF can_help /\ n.bravery > 30
       THEN [ReleaseResourceOccupation(w1, o) EXCEPT
                !.npcs[o].current_action = NULL,
                !.npcs[o].action_target = NULL,
                !.npcs[o].action_state = "idle",
                !.npcs[o].action_end_time = NoTime]
       ELSE w1

\* the loop "for other_npc in self.world_state.npcs" of _beast_attack_npc
RECURSIVE NotifyWitnesses(_, _, _)
NotifyWitnesses(w, a, k) ==
    IF k > Len(NpcOrder) THEN w
    ELSE LET o == NpcOrder[k]
             sees == /\ o # a
                     /\ w.npcs[o].is_alive
                     /\ CalculateDistance(w.npcs[a].position, w.npcs[o].position) < 15 * Unit
         IN NotifyWitnesses(IF sees THEN Witness(w, o) ELSE w, a, k + 1)

\* counter_damage of _beast_attack_npc, in hundredths
CounterDamage(n) ==
    10 * Unit + n.skills["combat"] * 50
    + (IF "spear" \in n.equipment THEN 15 * Unit
       ELSE IF n.inventory["stone"] > 0 THEN 5 * Unit ELSE 0)

\* MainGameLoop._beast_attack_npc for the beast at index i and the NPC a
BeastAttackNpc(w, i, a) ==
    LET b == w.beasts[i]
        w1 == [w EXCEPT !.npcs[a].health = ApplyBeastDamage(@, b.damage)]
        counter == CanCounterAttack(w1.npcs[a])
        hp == b.health - CounterDamage(w1.npcs[a])
        killed == counter /\ Dies(hp)
        w2 == IF counter
              THEN [w1 EXCEPT !.beasts[i].health = hp,
                              !.npcs[a].stamina = Max(0, @ - 8 * Unit),
                              !.npcs[a].skills["combat"] = Min(100, @ + 1)]
              ELSE w1
        w3 == IF killed
              THEN AddEvent([w2 EXCEPT !.beasts = RemoveAt(@, i),
                                       !.npcs[a].inventory["raw_meat"] =
                                           @ + MeatAmount(b.type)],
                            "beast_killed", <<a>>)
              ELSE w2
        w4 == AddEvent([w3 EXCEPT !.npcs[a] = AddMemory(@, "beast_attack")],
                       "beast_attack", <<a>>)
        w5 == IF MustInterrupt(w4.npcs[a], counter)
              THEN InterruptVictim(w4, a)
              ELSE w4
        w6 == NotifyWitnesses(w5, a, 1)
    IN IF killed THEN w6 ELSE [w6 EXCEPT !.beasts[i].state = "idle"]

\* the living NPC nearest to p, first in list order on ties; NULL if none
NearestLivingNpc(w, p) ==
    LET L == {o \in NPCs : w.npcs[o].is_alive}
    IN IF L = {} THEN NULL ELSE NearestOf(w, L, p)

NeverWounded(b) == FALSE

\* "beast.health < beast.max_health * 0.3"
SeverelyWounded(b) == 10 * b.health < 3 * b.max_health

\* MainGameLoop._decide_beast_behavior
DecideBeastBehavior(w, i) ==
    LET b == w.beasts[i]
        armed == {o \in NPCs : /\ w.npcs[o].is_alive
                               /\ CalculateDistance(b.position, w.npcs[o].position) < 10 * Unit
                               /\ HasWeapon(w.npcs[o])
                               /\ w.npcs[o].health > 50 * Unit}
        nearest == NearestLivingNpc(w, b.position)
        min_distance == CalculateDistance(b.position, w.npcs[nearest].position)
        pack_hunting ==
            /\ b.type = "wolf" /\ nearest # NULL
            /\ \E j \in 1..Len(w.beasts) :
                  /\ j # i /\ w.beasts[j].type = "wolf" /\ w.beasts[j].state = "chasing"
                  /\ w.beasts[j].target_npc = nearest
                  /\ CalculateDistance(b.position, w.beasts[j].position) < 20 * Unit
        chase_range == IF pack_hunting THEN 20 * Unit ELSE 15 * Unit
    IN IF IsAggressive(b)
       THEN IF SeverelyWounded(b) \/ Cardinality(armed) >= 2
            THEN [w EXCEPT !.beasts[i].state = "fleeing"]
            ELSE IF nearest # NULL /\ min_distance < chase_range
            THEN [w EXCEPT !.beasts[i].state = "chasing",
                           !.beasts[i].target_npc = nearest]
            ELSE [w EXCEPT !.beasts[i].state = "wandering"]
       ELSE IF nearest # NULL /\ min_distance < 8 * Unit
            THEN [w EXCEPT !.beasts[i].state = "fleeing"]
            ELSE [w EXCEPT !.beasts[i].state = "wandering"]

\* MainGameLoop._move_beast_wander; offset is the displacement of the new
\* wander target, 0 when the 20% draw fails
MoveBeastWander(w, i, offset) ==
    LET b == w.beasts[i]
        distance == CalculateDistance(b.position, b.move_target)
        step == Min(b.speed \div 2, distance)
    IN IF b.is_moving /\ b.move_target # NoPos
       THEN IF distance < 50
            THEN [w EXCEPT !.beasts[i].is_moving = FALSE, !.beasts[i].move_target = NoPos]
            ELSE [w EXCEPT !.beasts[i].position =
                     IF b.move_target > b.position THEN @ + step ELSE @ - step]
       ELSE IF offset = 0 THEN w
            ELSE [w EXCEPT !.beasts[i].is_moving = TRUE,
                           !.beasts[i].move_target =
                               Max(0, Min(100 * Unit, b.position + offset))]

ChaseStepUnlimited(speed, distance) == speed

\* "move_distance = min(move_distance, max_move)" with delta_time = 1
ChaseStep(speed, distance) == Min(speed, distance - ATTACK_RANGE)

\* MainGameLoop._move_beast_chase
MoveBeastChase(w, i, now) ==
    LET b == w.beasts[i]
        a == b.target_npc
        distance == CalculateDistance(b.position, w.npcs[a].position)
        move_distance == ChaseStep(b.speed, distance)
    IN IF a \notin NPCs \/ distance > 25 * Unit
       THEN [w EXCEPT !.beasts[i].state = "wandering", !.beasts[i].target_npc = NULL]
       ELSE IF distance < ATTACK_RANGE
       THEN IF now - b.last_attack_time >= attack_cooldown
            THEN BeastAttackNpc([w EXCEPT !.beasts[i].last_attack_time = now], i, a)
            ELSE w
       ELSE IF move_distance > 0
       THEN [w EXCEPT !.beasts[i].position =
                IF w.npcs[a].position > b.position THEN @ + move_distance
                ELSE @ - move_distance]
       ELSE w

\* MainGameLoop._move_beast_flee; the nearest NPC is taken among all NPCs,
\* dead ones included
MoveBeastFlee(w, i) ==
    LET b == w.beasts[i]
        o == NearestOf(w, NPCs, b.position)
        q == w.npcs[o].position
        min_distance == CalculateDistance(b.position, q)
        move_distance == (b.speed * 3) \div 2
    IN IF min_distance > 15 * Unit
       THEN [w EXCEPT !.beasts[i].state = "wandering",
                      !.beasts[i].is_moving = FALSE,
                      !.beasts[i].move_target = NoPos]
       ELSE IF min_distance > 0
       THEN [w EXCEPT !.beasts[i].position =
                Max(0, Min(100 * Unit,
                    IF b.position > q THEN @ + move_distance ELSE @ - move_distance))]
       ELSE w

\* the body of the loop of process_beasts.  wake tells whether the 10% draw
\* of an idle beast succeeds.
ProcessOneBeast(w, i, now, offset, wake) ==
    LET id == w.beasts[i].id
        w1 == IF now - w.beast_last_decision[id] >= beast_decision_interval
              THEN [DecideBeastBehavior(w, i) EXCEPT !.beast_last_decision[id] = now]
              ELSE w
        b == w1.beasts[i]
    IN CASE b.state = "wandering" -> MoveBeastWander(w1, i, offset)
         [] b.state = "chasing" /\ Truthy(b.target_npc) -> MoveBeastChase(w1, i, now)
         [] b.state = "fleeing" -> MoveBeastFlee(w1, i)
         [] b.state = "idle" /\ wake -> [w1 EXCEPT !.beasts[i].state = "wandering"]
         [] OTHER -> w1


\* --------------------------------------------------- resources, buildings
\* DAY_IN_SECONDS and regeneration_time of process_resources, compared with
\* the clock of get_current_time
DAY_IN_SECONDS == 86400
RegenerationTime(type) ==
    CASE type = "wood" -> 2 * DAY_IN_SECONDS * Milli
      [] type = "stone" -> 3 * DAY_IN_SECONDS * Milli
      [] type = "berry" -> (3 * DAY_IN_SECONDS * Milli) \div 2
      [] type = "water" -> DAY_IN_SECONDS * Milli
      [] OTHER -> 2 * DAY_IN_SECONDS * Milli

\* MainGameLoop.process_resources
RECURSIVE ProcessResourcesFrom(_, _, _)
ProcessResourcesFrom(w, k, now) ==
    IF k > Len(ResOrder) THEN w
    ELSE LET r == ResOrder[k]
             res == w.resources[r]
             regrow == /\ res.is_depleted
                       /\ now - res.depleted_time >= RegenerationTime(res.type)
             w1 == IF regrow
                   THEN AddEvent([w EXCEPT !.resources[r].quantity = res.max_quantity,
                                           !.resources[r].is_depleted = FALSE,
                                           !.resources[r].depleted_time = 0],
                                 "resource_regenerated", <<>>)
                   ELSE w
         IN ProcessResourcesFrom(w1, k + 1, now)

\* active_builders of process_buildings, in the order of world_state.npcs
ActiveBuilders(w, k) ==
    SelectSeq(NpcOrder, LAMBDA o :
        /\ w.npcs[o].current_action = "build"
        /\ w.npcs[o].action_target = w.buildings[k].id
        /\ w.npcs[o].is_alive
        /\ CalculateDistance(w.npcs[o].position, w.buildings[k].position) < 5 * Unit)

\* what process_buildings does to a builder of a building that completes
RewardBuilder(n, now) ==
    [AddMemory(n, "build_complete") EXCEPT
        !.skills["construction"] = Min(100, @ + 5),
        !.action_state = "cooling",
        !.action_end_time = now + 3 * Milli,
        !.current_action = NULL,
        !.action_target = NULL]

Unsaturated(full, progress) == progress

\* "construction_progress = min(1.0, construction_progress)"
Saturate(full, progress) == Min(full, progress)

ProgressStepFlat(n) == 2

\* progress_delta = base_progress_rate * cooperation_bonus for n builders, in
\* units of 1 / (2 * build_time_total): 2 * (1 + (n - 1) / 2)
ProgressStep(n) == n + 1

\* MainGameLoop.process_buildings.  One builder adds 1 / build_time_total per
\* tick and each further builder half of that: in units of
\* 1 / (2 * build_time_total) the step is 1 + number of builders.
RECURSIVE ProcessBuildingsFrom(_, _, _)
ProcessBuildingsFrom(w, k, now) ==
    IF k > Len(w.buildings) THEN w
    ELSE LET b == w.buildings[k]
             ab == ActiveBuilders(w, k)
             full == 2 * b.build_time_total
             progress == Saturate(full, b.progress + ProgressStep(Len(ab)))
             w1 == [w EXCEPT !.buildings[k].builders = ab]
             w2 == [w1 EXCEPT !.buildings[k].progress = progress]
             w3 == AddEvent([w2 EXCEPT
                               !.buildings[k].is_complete = TRUE,
                               !.npcs = [o \in NPCs |->
                                   IF o \in SeqToSet(ab) THEN RewardBuilder(w2.npcs[o], now)
                                   ELSE w2.npcs[o]]],
                            "build_complete", ab)
         IN ProcessBuildingsFrom(
                IF b.is_complete THEN w
                ELSE IF Len(ab) = 0 THEN w1
                ELSE IF progress >= full THEN w3 ELSE w2,
                k + 1, now)

\* ------------------------------------------------------------------- clock
\* MainGameLoop.update_time with game_minutes whole minutes
UpdateClock(t, game_minutes) ==
    LET m == t.minute + game_minutes
        h == IF m >= 60 THEN t.hour + m \div 60 ELSE t.hour
        m1 == IF m >= 60 THEN m % 60 ELSE m
    IN [day |-> IF h >= 24 THEN t.day + h \div 24 ELSE t.day,
        hour |-> IF h >= 24 THEN h % 24 ELSE h,
        minute |-> m1]

\* weather_transitions of update_weather: the outcomes of positive probability
WeatherTransitions(old) ==
    CASE old = "clear" -> {"clear", "cloudy", "rain"}
      [] old = "cloudy" -> {"clear", "cloudy", "rain", "storm"}
      [] old = "rain" -> {"clear", "cloudy", "rain", "storm"}
      [] old = "storm" -> {"cloudy", "rain", "storm"}
      [] OTHER -> {"clear"}


\* ----------------------------------------------------------- initial world
\* NPC2D(...) of WorldGenerator.generate_npc with the default attributes
NewNpc(pos) ==
    [position |-> pos, health |-> 100 * Unit, hunger |-> 0, stamina |-> 100 * Unit,
     bravery |-> 50,
     skills |-> [k \in SkillNames |-> 0],
     inventory |-> [k \in Items |-> 0],
     equipment |-> {},
     current_action |-> NULL, action_target |-> NULL, action_end_time |-> NoTime,
     action_state |-> "idle", is_alive |-> TRUE,
     is_moving |-> FALSE, move_target |-> NoPos,
     memories |-> <<>>, in_conversation |-> FALSE, conversation_id |-> 0]

\* NPCs as the game leaves them after some play
Wounded(pos) == [NewNpc(pos) EXCEPT !.health = 55 * Unit, !.hunger = 20 * Unit]
Weak(pos) == [NewNpc(pos) EXCEPT !.health = 5 * Unit, !.hunger = 20 * Unit]
Starving(pos) == [NewNpc(pos) EXCEPT !.health = 10, !.hunger = 100 * Unit]
ArmedBrave(pos) ==
    [NewNpc(pos) EXCEPT !.inventory["stone"] = 3, !.inventory["berry"] = 10,
                        !.skills["mining"] = 1, !.skills["foraging"] = 1]
ArmedTimid(pos) ==
    [NewNpc(pos) EXCEPT !.inventory["stone"] = 3, !.skills["mining"] = 1,
                        !.health = 65 * Unit, !.bravery = 30]
Builder(pos, now) ==
    [NewNpc(pos) EXCEPT !.current_action = "build", !.action_target = "b0",
                        !.action_state = "executing",
                        !.action_end_time = now + 60 * Milli,
                        !.skills["woodcutting"] = 1, !.stamina = 80 * Unit]

\* a builder whose timer of 120 has 20 left
LateBuilder(pos, now) ==
    [Builder(pos, now) EXCEPT !.action_end_time = now + 20 * Milli]

\* ResourceNode(...) of WorldGenerator.generate_resources for a tree
Tree(pos, quantity) ==
    [type |-> "wood", position |-> pos, quantity |-> quantity, max_quantity |-> 150,
     is_depleted |-> FALSE, depleted_time |-> 0, occupied_by |-> NULL]

\* a tree emptied by complete_gather_action at the clock value at
DepletedTree(pos, at) ==
    [Tree(pos, 0) EXCEPT !.is_depleted = TRUE, !.depleted_time = at]

\* Beast(...) of WorldGenerator.generate_beasts for a wolf
BeastIds == {"w1", "w2"}
Wolf(pos) ==
    [id |-> "w1", type |-> "wolf", position |-> pos, health |-> 50 * Unit,
     max_health |-> 50 * Unit, aggression |-> 70, speed |-> 3 * Unit,
     damage |-> 8 * Unit, state |-> "idle", target_npc |-> NULL,
     is_moving |-> FALSE, move_target |-> NoPos, last_attack_time |-> 0]

\* a campfire two ticks of a single builder away from completion
Campfire(pos) ==
    [NewBuilding("b0", "campfire", pos, "n1") EXCEPT !.progress = 116]

\* a lean-to that a single builder has worked on for six ticks
StartedLeanTo(pos) ==
    [NewBuilding("b0", "lean_to", pos, "n1") EXCEPT !.progress = 12]

\* a second campfire, started by n2 out of sight of the first
OtherCampfire(pos) ==
    [NewBuilding("b9", "campfire", pos, "n2") EXCEPT !.progress = 116]

\* a wooden hut that two builders are about to complete
StartedHut(pos) ==
    [NewBuilding("b0", "wooden_hut", pos, "n1") EXCEPT
        !.progress = 471, !.builders = <<"n1", "n2">>]

\* the same campfire once process_buildings has completed it
BuiltCampfire(pos) ==
    [NewBuilding("b0", "campfire", pos, "n1") EXCEPT
        !.progress = 120, !.is_complete = TRUE]

\* TimeSystem() and the clock two days later
StartTime == [day |-> 1, hour |-> 8, minute |-> 0]
LaterTime == [day |-> 3, hour |-> 8, minute |-> 0]
BeforeLaterTime == [day |-> 3, hour |-> 7, minute |-> 50]

\* The worlds explored: the first is the world of start_game, the others are
\* worlds of a game in progress.
Scenarios ==
    { [name |-> "start", time |-> StartTime, last_weather_check |-> 0,
       n1 |-> NewNpc(50 * Unit), n2 |-> NewNpc(52 * Unit),
       wolf |-> 70 * Unit, buildings |-> <<>>,
       r1 |-> Tree(51 * Unit, 10)],
      [name |-> "unarmed", time |-> LaterTime,
       last_weather_check |-> GetCurrentTime(LaterTime),
       n1 |-> NewNpc(50 * Unit), n2 |-> NewNpc(52 * Unit),
       wolf |-> 48 * Unit, buildings |-> <<>>,
       r1 |-> Tree(51 * Unit, 10)],
      [name |-> "wounded", time |-> LaterTime,
       last_weather_check |-> GetCurrentTime(LaterTime),
       n1 |-> Wounded(50 * Unit), n2 |-> ArmedBrave(52 * Unit),
       wolf |-> 48 * Unit, buildings |-> <<>>,
       r1 |-> Tree(51 * Unit, 10)],
      [name |-> "armed", time |-> LaterTime,
       last_weather_check |-> GetCurrentTime(LaterTime),
       n1 |-> ArmedBrave(50 * Unit), n2 |-> NewNpc(52 * Unit),
       wolf |-> 48 * Unit, buildings |-> <<>>,
       r1 |-> Tree(51 * Unit, 10)],
      [name |-> "timid", time |-> LaterTime,
       last_weather_check |-> GetCurrentTime(LaterTime),
       n1 |-> ArmedTimid(50 * Unit), n2 |-> NewNpc(52 * Unit),
       wolf |-> 48 * Unit, buildings |-> <<>>,
       r1 |-> Tree(51 * Unit, 10)],
      [name |-> "weak", time |-> LaterTime,
       last_weather_check |-> GetCurrentTime(LaterTime),
       n1 |-> Weak(50 * Unit), n2 |-> NewNpc(52 * Unit),
       wolf |-> 48 * Unit, buildings |-> <<>>,
       r1 |-> Tree(51 * Unit, 10)],
      [name |-> "starving", time |-> LaterTime,
       last_weather_check |-> GetCurrentTime(LaterTime),
       n1 |-> Starving(50 * Unit), n2 |-> NewNpc(52 * Unit),
       wolf |-> 70 * Unit, buildings |-> <<>>,
       r1 |-> Tree(51 * Unit, 10)],
      [name |-> "building", time |-> LaterTime,
       last_weather_check |-> GetCurrentTime(LaterTime),
       n1 |-> Builder(50 * Unit, GetCurrentTime(LaterTime)), n2 |-> NewNpc(52 * Unit),
       wolf |-> 70 * Unit, buildings |-> <<Campfire(51 * Unit)>>,
       r1 |-> Tree(51 * Unit, 10)],
      [name |-> "camp", time |-> LaterTime,
       last_weather_check |-> GetCurrentTime(LaterTime),
       n1 |-> NewNpc(50 * Unit), n2 |-> NewNpc(52 * Unit),
       wolf |-> 70 * Unit, buildings |-> <<BuiltCampfire(51 * Unit)>>,
       r1 |-> Tree(51 * Unit, 10)],
      [name |-> "overtime", time |-> LaterTime,
       last_weather_check |-> GetCurrentTime(LaterTime),
       n1 |-> LateBuilder(50 * Unit, GetCurrentTime(LaterTime)), n2 |-> NewNpc(52 * Unit),
       wolf |-> 70 * Unit, buildings |-> <<StartedLeanTo(51 * Unit)>>,
       r1 |-> Tree(51 * Unit, 10)],
      [name |-> "hut", time |-> LaterTime,
       last_weather_check |-> GetCurrentTime(LaterTime),
       n1 |-> Builder(50 * Unit, GetCurrentTime(LaterTime)),
       n2 |-> LateBuilder(52 * Unit, GetCurrentTime(LaterTime)),
       wolf |-> 70 * Unit, buildings |-> <<StartedHut(51 * Unit)>>,
       r1 |-> Tree(51 * Unit, 10)],
      [name |-> "twofires", time |-> LaterTime,
       last_weather_check |-> GetCurrentTime(LaterTime),
       n1 |-> Builder(50 * Unit, GetCurrentTime(LaterTime)),
       n2 |-> [Builder(30 * Unit, GetCurrentTime(LaterTime)) EXCEPT
                  !.action_target = "b9"],
       wolf |-> 70 * Unit,
       buildings |-> <<Campfire(51 * Unit), OtherCampfire(29 * Unit)>>,
       r1 |-> Tree(51 * Unit, 10)],
      [name |-> "scarce", time |-> LaterTime,
       last_weather_check |-> GetCurrentTime(LaterTime),
       n1 |-> NewNpc(50 * Unit), n2 |-> NewNpc(52 * Unit),
       wolf |-> 70 * Unit, buildings |-> <<>>,
       r1 |-> Tree(51 * Unit, 3)],
      [name |-> "depleted", time |-> BeforeLaterTime,
       last_weather_check |-> GetCurrentTime(BeforeLaterTime),
       n1 |-> NewNpc(50 * Unit), n2 |-> NewNpc(52 * Unit),
       wolf |-> 70 * Unit, buildings |-> <<>>,
       r1 |-> DepletedTree(51 * Unit, GetCurrentTime(StartTime))] }

\* the world of the scenario s at the start of an iteration; spent is the
\* number of free decisions of the provider that are not explored
InitWorld(s, spent) ==
        /\ time = s.time
        /\ weather = "clear"
        /\ last_weather_check = s.last_weather_check
        /\ npcs = [a \in NPCs |-> IF a = "n1" THEN s.n1 ELSE s.n2]
        /\ npc_last_decision = [a \in NPCs |-> 0]
        /\ resources = [r \in Resources |->
               IF r = "r1" THEN s.r1 ELSE Tree(60 * Unit, 100)]
        /\ beasts = <<Wolf(s.wolf)>>
        /\ beast_last_decision = [b \in BeastIds |-> 0]
        /\ buildings = s.buildings
        /\ active_conversations = {}
        /\ events = <<>>
        /\ global_resources = [k \in GlobalKeys |-> 0]
        /\ next_id = 1
        /\ pc = "time"
        /\ idx = 1
        /\ ticks = 0
        /\ decisions = spent
        /\ draws = 0
        /\ commands = 0

\* the world of one scenario inside a running main_loop: start_game has set
\* is_running and created the main_loop task
Init ==
    \E s \in Scenarios :
        /\ InitWorld(s, 0)
        /\ is_running = TRUE /\ waiting_for_client = FALSE
        /\ stopped = FALSE /\ loop = "tick"


\* ------------------------------------------------------------------ inputs
\* what the decision provider may answer (NPCAction.action, NPCAction.target)
ActionChoices ==
    { [action |-> "gather", target |-> "wood"],
      [action |-> "talk", target |-> NULL],
      [action |-> "rest", target |-> NULL],
      [action |-> "eat", target |-> "berry"],
      [action |-> "explore", target |-> NULL],
      [action |-> "flee", target |-> NULL],
      [action |-> "hunt", target |-> NULL],
      [action |-> "build", target |-> "campfire"] }

\* the decision taken once MaxDecisions free decisions have been explored
DefaultDecision == [action |-> "rest", target |-> NULL]

\* planned_action of generate_conversation_dialogue
Plans == {NoPlan, [action |-> "flee", target |-> NULL]}

TalkDurations == {30 * Milli}                 \* random.uniform(30, 45)
CoolingTimes == {2 * Milli}                   \* random.uniform(2.0, 5.0)
Dirs == {1, 0 - 1}                            \* sign of a random offset
MicroMoves == {30}                            \* random.uniform(-0.3, 0.3)
WanderOffsets == {3 * Unit, 0 - 3 * Unit}     \* wander_distance on the line

\* the random draws of a step in which the NPC takes the decision act
DecisionInputs(act) ==
    [talk_duration : IF act.action = "talk" THEN TalkDurations ELSE {30 * Milli},
     plan : IF act.action = "talk" THEN Plans ELSE {NoPlan},
     dir : IF act.action = "explore" THEN Dirs ELSE {1},
     cooling : CoolingTimes,
     observe : {0}]

\* the random draws of a step in which the NPC takes no decision; a planned
\* action dispatched by complete_conversation draws from them
CompletionInputs(n) ==
    [talk_duration : {30 * Milli},
     plan : {NoPlan},
     dir : IF n.current_action = "talk" THEN Dirs ELSE {1},
     cooling : CoolingTimes,
     observe : IF n.current_action = "gather" THEN {0, 1} ELSE {0}]

\* ------------------------------------------------------------------- steps
Now == GetCurrentTime(time)

\* main_loop: update_time and the weather check, delta_time seconds of wall
\* clock after the previous iteration (game_minutes = delta_time * 60 / 60)
UpdateTimeBy(delta_time) ==
    /\ pc = "time"
    /\ ticks < MaxTicks
    /\ time' = UpdateClock(time, delta_time)
    /\ LET game_time == GetCurrentTime(time')
       IN IF game_time - last_weather_check >= weather_check_interval
          THEN \/ \E nw \in WeatherTransitions(weather) :
                     /\ weather' = nw
                     /\ last_weather_check' = game_time
                     /\ events' = IF nw # weather
                                  THEN AddEvent(World, "weather_change", <<>>).events
                                  ELSE events
               \/ /\ last_weather_check' = last_weather_check + 600 * Milli
                  /\ UNCHANGED <<weather, events>>
          ELSE UNCHANGED <<weather, last_weather_check, events>>
    /\ pc' = "npcs"
    /\ idx' = 1
    /\ UNCHANGED <<npcs, npc_last_decision, resources, beasts, beast_last_decision,
                   buildings, active_conversations, global_resources, next_id,
                   ticks, decisions, draws>>

\* an iteration that follows a slow one (the provider calls are awaited)
UpdateTime == UpdateTimeBy(DeltaTime)

\* whether the NPC asks the provider in this iteration of process_npcs
WillDecide(w, a, now, dx) ==
    LET Idle(w1) == /\ ~(w1.npcs[a].is_moving /\ w1.npcs[a].move_target # NoPos)
                    /\ ShouldMakeDecision(w1, a, now)
    IN Idle(UpdateNpcAttributes(w, a, dx))

\* leaving the loop of process_npcs; an exception that reaches main_loop ends
\* the iteration
AfterNpc(w) ==
    IF w.raised THEN pc' = "time" /\ idx' = 1 /\ ticks' = ticks + 1
    ELSE IF idx < Len(NpcOrder) THEN pc' = "npcs" /\ idx' = idx + 1 /\ ticks' = ticks
    ELSE pc' = "social" /\ idx' = 1 /\ ticks' = ticks

\* process_npcs: one iteration of "for npc in self.world_state.npcs"
ProcessNpc ==
    /\ pc = "npcs"
    /\ LET a == NpcOrder[idx]
       IN IF ~npcs[a].is_alive
          THEN /\ SetWorld(World)
               /\ AfterNpc(World)
               /\ UNCHANGED <<decisions, draws>>
          ELSE \E dx \in {0} \cup (IF draws < MaxDraws THEN MicroMoves ELSE {}),
                    deciding \in BOOLEAN :
                 /\ deciding = WillDecide(World, a, Now, dx)
                 /\ \E free \in {deciding /\ decisions < MaxDecisions} :
                    \E act \in (IF free THEN ActionChoices ELSE {DefaultDecision}) :
                    \E inp \in (IF deciding THEN DecisionInputs(act)
                                ELSE CompletionInputs(npcs[a])) :
                      LET Commit(w) == SetWorld(w) /\ AfterNpc(w)
                      IN /\ dx # 0 => UpdateNpcAttributes(World, a, 0).npcs[a].is_alive
                         /\ Commit(ProcessOneNpc(World, a, Now, dx, act, inp))
                         /\ decisions' = IF free THEN decisions + 1 ELSE decisions
                         /\ draws' = IF dx # 0 THEN draws + 1 ELSE draws
    /\ UNCHANGED <<time, weather, last_weather_check>>

\* the pairs that process_social_interactions may pick: both idle, within the
\* social range, in list order
SocialPairs(w) ==
    {p \in (1..Len(NpcOrder)) \X (1..Len(NpcOrder)) :
        /\ p[1] < p[2]
        /\ w.npcs[NpcOrder[p[1]]].action_state = "idle"
        /\ w.npcs[NpcOrder[p[2]]].action_state = "idle"
        /\ CalculateDistance(w.npcs[NpcOrder[p[1]]].position,
                             w.npcs[NpcOrder[p[2]]].position) <= SOCIAL_RANGE}

\* MainGameLoop.create_social_interaction
CreateSocialInteraction(w, a, b) ==
    AddEvent([w EXCEPT !.npcs[a] = AddMemory(@, "social_interaction"),
                       !.npcs[b] = AddMemory(@, "social_interaction")],
             "social_interaction", <<a, b>>)

\* process_npcs: "if random.random() < 0.1: process_social_interactions"
SocialInteractions ==
    /\ pc = "social"
    /\ \/ SetWorld(World) /\ draws' = draws
       \/ /\ draws < MaxDraws
          /\ \E p \in SocialPairs(World) :
                SetWorld(CreateSocialInteraction(World, NpcOrder[p[1]], NpcOrder[p[2]]))
          /\ draws' = draws + 1
    /\ pc' = "beasts"
    /\ idx' = 1
    /\ UNCHANGED <<time, weather, last_weather_check, ticks, decisions>>

\* process_beasts: one iteration of "for beast in self.world_state.beasts";
\* the loop index advances by one even when the beast was removed
ProcessBeast ==
    /\ pc = "beasts"
    /\ IF idx > Len(beasts)
       THEN /\ SetWorld(World)
            /\ pc' = "resources"
            /\ idx' = 1
            /\ draws' = draws
       ELSE /\ \E offset \in {0} \cup (IF draws < MaxDraws THEN WanderOffsets ELSE {}),
                  wake \in {FALSE} \cup (IF draws < MaxDraws THEN {TRUE} ELSE {}) :
                 LET Commit(w, used) ==
                         /\ (offset # 0 \/ wake) => used
                         /\ SetWorld(w)
                         /\ draws' = IF used THEN draws + 1 ELSE draws
                     Drawn(w) == Commit(w, w # ProcessOneBeast(World, idx, Now, 0, FALSE))
                 IN /\ ~(offset # 0 /\ wake)
                    /\ Drawn(ProcessOneBeast(World, idx, Now, offset, wake))
            /\ pc' = "beasts"
            /\ idx' = idx + 1
    /\ UNCHANGED <<time, weather, last_weather_check, ticks, decisions>>

\* main_loop: process_resources
ProcessResources ==
    /\ pc = "resources"
    /\ SetWorld(ProcessResourcesFrom(World, 1, Now))
    /\ pc' = "buildings"
    /\ UNCHANGED <<time, weather, last_weather_check, idx, ticks, decisions, draws>>

\* main_loop: process_buildings, the end of the iteration
ProcessBuildings ==
    /\ pc = "buildings"
    /\ SetWorld(ProcessBuildingsFrom(World, 1, Now))
    /\ pc' = "time"
    /\ ticks' = ticks + 1
    /\ UNCHANGED <<time, weather, last_weather_check, idx, decisions, draws>>

\* one iteration after another of a main_loop that nothing stops
Next ==
    \/ UpdateTime /\ UNCHANGED <<life, commands>>
    \/ ProcessNpc /\ UNCHANGED <<life, commands>>
    \/ SocialInteractions /\ UNCHANGED <<life, commands>>
    \/ ProcessBeast /\ UNCHANGED <<life, commands>>
    \/ ProcessResources /\ UNCHANGED <<life, commands>>
    \/ ProcessBuildings /\ UNCHANGED <<life, commands>>

Spec == Init /\ [][Next]_vars

\* ------------------------------------------------- duration of an action
\* calculate_action_duration applied once, by execute_action, to an agent
\* and a resource node whose stamina, health, combat skill and quantity are
\* drawn from the values below
DurationStaminas == {20 * Unit, 30 * Unit, 100 * Unit}
DurationHealths == {40 * Unit, 50 * Unit, 100 * Unit}
DurationSkills == {0, 50, 100}
DurationQuantities == {1, 75, 150}
DurationActions ==
    ActionChoices \cup { [action |-> "gather", target |-> "r1"],
                         [action |-> "share", target |-> "n2"],
                         [action |-> "defend", target |-> NULL],
                         [action |-> "wait", target |-> NULL] }

DurationInit ==
    \E st \in DurationStaminas, hp \in DurationHealths, sk \in DurationSkills,
       q \in DurationQuantities :
        /\ time = LaterTime
        /\ weather = "clear"
        /\ last_weather_check = GetCurrentTime(LaterTime)
        /\ npcs = [a \in NPCs |->
               IF a = "n1"
               THEN [NewNpc(50 * Unit) EXCEPT !.stamina = st, !.health = hp,
                                              !.skills["combat"] = sk,
                                              !.inventory["wood"] = 5]
               ELSE NewNpc(52 * Unit)]
        /\ npc_last_decision = [a \in NPCs |-> 0]
        /\ resources = [r \in Resources |->
               IF r = "r1" THEN Tree(51 * Unit, q) ELSE Tree(60 * Unit, 100)]
        /\ beasts = <<Wolf(70 * Unit)>>
        /\ beast_last_decision = [b \in BeastIds |-> 0]
        /\ buildings = <<>>
        /\ active_conversations = {}
        /\ events = <<>>
        /\ global_resources = [k \in GlobalKeys |-> 0]
        /\ next_id = 1
        /\ pc = "npcs"
        /\ idx = 1
        /\ ticks = 0
        /\ decisions = 0
        /\ draws = 0
        /\ commands = 0
        /\ is_running = TRUE /\ waiting_for_client = FALSE
        /\ stopped = FALSE /\ loop = "tick"

\* execute_action for n1 with one of the actions
DispatchOnce ==
    /\ decisions = 0
    /\ \E act \in DurationActions :
       \E inp \in DecisionInputs(act) :
           SetWorld(ExecuteAction(World, "n1", act, Now, inp))
    /\ decisions' = 1
    /\ UNCHANGED <<time, weather, last_weather_check, pc, idx, ticks, draws, life, commands>>

DurationSpec == DurationInit /\ [][DispatchOnce]_vars

\* ------------------------------------------------- dispatch of a build
\* the build branch of execute_action applied once to an agent whose wood and
\* stone, and a world whose buildings, are drawn from the values below
BuildWoods == {0, 4, 5, 30}
BuildStones == {0, 15}
BuildTargets == BuildingTypes \cup {"tower"}

\* a building of type t that n2 started at pos
SiteBuilding(t, pos, done) ==
    [NewBuilding("b0", t, pos, "n2") EXCEPT
        !.is_complete = done,
        !.progress = IF done THEN 2 * BuildingDef(t).build_time ELSE 10]

\* the agent stands at 50: an empty world, a campfire in progress next to
\* it and out of its sight, a finished campfire far away, a finished shed
\* close by and far away
BuildSites ==
    { <<>>,
      <<SiteBuilding("campfire", 52 * Unit, FALSE)>>,
      <<SiteBuilding("campfire", 60 * Unit, FALSE)>>,
      <<SiteBuilding("campfire", 70 * Unit, FALSE)>>,
      <<SiteBuilding("campfire", 90 * Unit, TRUE)>>,
      <<SiteBuilding("storage_shed", 60 * Unit, TRUE)>>,
      <<SiteBuilding("storage_shed", 75 * Unit, TRUE)>> }

BuildInit ==
    \E wd \in BuildWoods, sn \in BuildStones, site \in BuildSites :
        /\ time = LaterTime
        /\ weather = "clear"
        /\ last_weather_check = GetCurrentTime(LaterTime)
        /\ npcs = [a \in NPCs |->
               IF a = "n1"
               THEN [NewNpc(50 * Unit) EXCEPT !.inventory["wood"] = wd,
                                              !.inventory["stone"] = sn]
               ELSE NewNpc(52 * Unit)]
        /\ npc_last_decision = [a \in NPCs |-> 0]
        /\ resources = [r \in Resources |-> Tree(60 * Unit, 100)]
        /\ beasts = <<Wolf(70 * Unit)>>
        /\ beast_last_decision = [b \in BeastIds |-> 0]
        /\ buildings = site
        /\ active_conversations = {}
        /\ events = <<>>
        /\ global_resources = [k \in GlobalKeys |-> 0]
        /\ next_id = 1
        /\ pc = "npcs"
        /\ idx = 1
        /\ ticks = 0
        /\ decisions = 0
        /\ draws = 0
        /\ commands = 0
        /\ is_running = TRUE /\ waiting_for_client = FALSE
        /\ stopped = FALSE /\ loop = "tick"

\* the inputs of execute_action for a build: the side of the random offset
BuildInputs(t) ==
    {[inp EXCEPT !.dir = d] :
        inp \in DecisionInputs([action |-> "build", target |-> t]), d \in Dirs}

\* execute_action for n1 with a build decision
DispatchBuildOnce ==
    /\ decisions = 0
    /\ \E t \in BuildTargets :
       \E inp \in BuildInputs(t) :
           SetWorld(ExecuteAction(World, "n1", [action |-> "build", target |-> t],
                                  Now, inp))
    /\ decisions' = 1
    /\ UNCHANGED <<time, weather, last_weather_check, pc, idx, ticks, draws, life, commands>>

BuildSpec == BuildInit /\ [][DispatchBuildOnce]_vars

\* ------------------------------------------- evaluation of a behaviour
\* _decide_beast_behavior applied once to a beast at 50 whose health,
\* aggression and state, and to agents whose arms and places, are drawn from
\* the values below
BehaviorHealths == {14 * Unit, 1499, 15 * Unit, 50 * Unit}
BehaviorAggressions == {30, 70}
BehaviorStates == {"idle", "wandering", "chasing", "fleeing"}
BehaviorFirstNpcs ==
    { NewNpc(52 * Unit), ArmedBrave(52 * Unit),
      [NewNpc(52 * Unit) EXCEPT !.is_alive = FALSE, !.health = 0] }
BehaviorSecondNpcs == { ArmedBrave(53 * Unit), NewNpc(90 * Unit) }

BehaviorInit ==
    \E hp \in BehaviorHealths, ag \in BehaviorAggressions, st \in BehaviorStates,
       first \in BehaviorFirstNpcs, second \in BehaviorSecondNpcs :
        /\ time = LaterTime
        /\ weather = "clear"
        /\ last_weather_check = GetCurrentTime(LaterTime)
        /\ npcs = [a \in NPCs |-> IF a = "n1" THEN first ELSE second]
        /\ npc_last_decision = [a \in NPCs |-> 0]
        /\ resources = [r \in Resources |-> Tree(60 * Unit, 100)]
        /\ beasts = <<[Wolf(50 * Unit) EXCEPT
                          !.health = hp, !.aggression = ag, !.state = st,
                          !.target_npc = IF st = "chasing" THEN "n1" ELSE NULL]>>
        /\ beast_last_decision = [b \in BeastIds |-> 0]
        /\ buildings = <<>>
        /\ active_conversations = {}
        /\ events = <<>>
        /\ global_resources = [k \in GlobalKeys |-> 0]
        /\ next_id = 1
        /\ pc = "beasts"
        /\ idx = 1
        /\ ticks = 0
        /\ decisions = 0
        /\ draws = 0
        /\ commands = 0
        /\ is_running = TRUE /\ waiting_for_client = FALSE
        /\ stopped = FALSE /\ loop = "tick"

\* "self._decide_beast_behavior(beast)" of process_beasts and the stamp that
\* follows it
EvaluateOnce ==
    /\ decisions = 0
    /\ SetWorld([DecideBeastBehavior(World, 1) EXCEPT
                    !.beast_last_decision[beasts[1].id] = Now])
    /\ decisions' = 1
    /\ UNCHANGED <<time, weather, last_weather_check, pc, idx, ticks, draws, life, commands>>

BehaviorSpec == BehaviorInit /\ [][EvaluateOnce]_vars

\* ------------------------------------------------ failure of the provider
\* process_npc_decision applied once, with a provider that fails, to an agent
\* at 50 whose health, hunger, stamina and berries, and to a world whose
\* nodes, are drawn in FailureInit.
\* The first node is a tree or a berry bush, close by or out of reach
FailureInit ==
    \E hp \in {20 * Unit, 30 * Unit, 100 * Unit},
       hg \in {50 * Unit, 80 * Unit, 90 * Unit},
       st \in {15 * Unit, 20 * Unit, 100 * Unit},
       bn \in {0, 2},
       node \in { Tree(51 * Unit, 10), Tree(85 * Unit, 10),
                  [Tree(55 * Unit, 10) EXCEPT !.type = "berry"],
                  [Tree(75 * Unit, 10) EXCEPT !.type = "berry"] } :
        /\ time = LaterTime
        /\ weather = "clear"
        /\ last_weather_check = GetCurrentTime(LaterTime)
        /\ npcs = [a \in NPCs |->
               IF a = "n1"
               THEN [NewNpc(50 * Unit) EXCEPT !.health = hp, !.hunger = hg,
                                              !.stamina = st,
                                              !.inventory["berry"] = bn]
               ELSE NewNpc(52 * Unit)]
        /\ npc_last_decision = [a \in NPCs |-> 0]
        /\ resources = [r \in Resources |->
               IF r = "r1" THEN node ELSE Tree(90 * Unit, 100)]
        /\ beasts = <<Wolf(70 * Unit)>>
        /\ beast_last_decision = [b \in BeastIds |-> 0]
        /\ buildings = <<>>
        /\ active_conversations = {}
        /\ events = <<>>
        /\ global_resources = [k \in GlobalKeys |-> 0]
        /\ next_id = 1
        /\ pc = "npcs"
        /\ idx = 1
        /\ ticks = 0
        /\ decisions = 0
        /\ draws = 0
        /\ commands = 0
        /\ is_running = TRUE /\ waiting_for_client = FALSE
        /\ stopped = FALSE /\ loop = "tick"

\* process_npc_decision for n1 with a provider that fails
DecideOnFailure ==
    /\ decisions = 0
    /\ \E kind \in ReplyKinds \ {"object"} :
       \E inp \in DecisionInputs(GenerateNpcDecision(World, "n1", kind, NoPlan)) :
           SetWorld(ProcessNpcDecision(World, "n1", Now,
                        GenerateNpcDecision(World, "n1", kind, NoPlan), inp))
    /\ decisions' = 1
    /\ UNCHANGED <<time, weather, last_weather_check, pc, idx, ticks, draws, life, commands>>

FailureSpec == FailureInit /\ [][DecideOnFailure]_vars

\* ------------------------------------------------------ the game loop task
\* start_game, main_loop, the client-ready signal and stop() around the
\* iteration modelled above, in the world "camp".  loop is the position of
\* the task that runs start_game and then main_loop:
\*   "start"      start_game awaits its broadcast_world_state
\*   "waiting"    start_game polls waiting_for_client
\*   "head"       main_loop is at "while self.is_running"
\*   "tick"       main_loop is inside the try block, before the broadcast
\*   "broadcast"  main_loop awaits broadcast_callback
\*   "sleep"      asyncio.sleep(tick_interval) that ends the try block
\*   "except"     asyncio.sleep(tick_interval) of the except clause
\*   "done"       main_loop has returned
LoopInit ==
    \E s \in {c \in Scenarios : c.name = "camp"} :
        /\ InitWorld(s, 0)
        /\ is_running = FALSE /\ waiting_for_client = TRUE
        /\ stopped = FALSE /\ loop = "start"

\* the awaited broadcast_callback (sio.emit) returns
BroadcastCallback ==
    /\ loop \in {"start", "broadcast"}
    /\ loop' = IF loop = "start" THEN "waiting" ELSE "sleep"
    /\ UNCHANGED <<game, is_running, waiting_for_client, stopped>>

\* MainGameLoop.on_client_connected, called by the client_ready handler:
\* the first signal clears the flag, a later one finds it cleared
OnClientConnected ==
    /\ waiting_for_client' = (IF waiting_for_client THEN FALSE ELSE waiting_for_client)
    /\ UNCHANGED <<game, is_running, stopped, loop>>

\* a start_game that does not wait for the client
StartGameAtOnce ==
    /\ loop = "waiting"
    /\ is_running' = TRUE
    /\ loop' = "head"
    /\ UNCHANGED <<game, waiting_for_client, stopped>>

\* start_game leaves "while self.waiting_for_client", sets the flag and
\* creates the main_loop task
StartGame ==
    /\ loop = "waiting"
    /\ ~waiting_for_client
    /\ is_running' = TRUE
    /\ loop' = "head"
    /\ UNCHANGED <<game, waiting_for_client, stopped>>

\* MainGameLoop.stop
Stop ==
    /\ is_running' = FALSE
    /\ stopped' = TRUE
    /\ UNCHANGED <<game, waiting_for_client, loop>>

\* an iteration that leaves the try block by an exception ends halted
\* instead of in the except clause
MainLoopUncaught ==
    \/ /\ loop = "head"
       /\ loop' = IF is_running THEN "tick" ELSE "done"
       /\ UNCHANGED <<game, is_running, waiting_for_client, stopped>>
    \/ /\ loop = "tick"
       /\ \/ UpdateTime
          \/ ProcessNpc
          \/ SocialInteractions
          \/ ProcessBeast
          \/ ProcessResources
          \/ ProcessBuildings
       /\ loop' = IF pc' # "time" THEN "tick"
                  ELSE IF pc = "buildings" THEN "broadcast" ELSE "done"
       /\ UNCHANGED <<is_running, waiting_for_client, stopped, commands>>
    \/ /\ loop \in {"sleep", "except"}
       /\ loop' = "head"
       /\ UNCHANGED <<game, is_running, waiting_for_client, stopped>>

\* MainGameLoop.main_loop: the test of the while loop, a stage of the
\* iteration, and the sleep that ends the try block or the except clause.
\* A stage that ends the iteration before process_buildings has raised.
MainLoop ==
    \/ /\ loop = "head"
       /\ loop' = IF is_running THEN "tick" ELSE "done"
       /\ UNCHANGED <<game, is_running, waiting_for_client, stopped>>
    \/ /\ loop = "tick"
       /\ \/ UpdateTime
          \/ ProcessNpc
          \/ SocialInteractions
          \/ ProcessBeast
          \/ ProcessResources
          \/ ProcessBuildings
       /\ loop' = IF pc' # "time" THEN "tick"
                  ELSE IF pc = "buildings" THEN "broadcast" ELSE "except"
       /\ UNCHANGED <<is_running, waiting_for_client, stopped, commands>>
    \/ /\ loop \in {"sleep", "except"}
       /\ loop' = "head"
       /\ UNCHANGED <<game, is_running, waiting_for_client, stopped>>

LoopNext ==
    \/ BroadcastCallback
    \/ OnClientConnected
    \/ StartGame
    \/ Stop
    \/ MainLoop

LoopSpec == LoopInit /\ [][LoopNext]_vars

\* ------------------------------------------------- operator memory commands
\* god_add_memory next to the iterations of main_loop, in the world "unarmed"
\* with an agent n1 whose log is already long and a provider that always
\* answers "rest".  The log of n1 starts with k entries, the last
\* MemoryKeep - 1 of them tagged "recent".
MaxCommands == 2

LongLog(k) ==
    [i \in 1..k |-> IF i > k - (MemoryKeep - 1) THEN "recent" ELSE "old"]

\* god_add_memory: target is 'all' or the id of an agent; only living agents
\* are given the memory
GodAddMemory(w, target) ==
    [w EXCEPT !.npcs =
        [a \in NPCs |->
            IF (target = "all" \/ target = a) /\ w.npcs[a].is_alive
            THEN LET added == Remember(w.npcs[a], "operator")
                 IN [added EXCEPT !.memories =
                        IF Len(@) > OperatorCap THEN LastN(@, OperatorCap) ELSE @]
            ELSE w.npcs[a]]]

MemoryInit ==
    \E k \in {MemoryTrimAt - 1, MemoryTrimAt, OperatorCap} :
    \E s \in {c \in Scenarios : c.name = "unarmed"} :
        /\ InitWorld([s EXCEPT !.n1.memories = LongLog(k)], MaxDecisions)
        /\ is_running = TRUE /\ waiting_for_client = FALSE
        /\ stopped = FALSE /\ loop = "tick"

\* the god_add_memory handler of main.py.  Handlers of other tasks run
\* where main_loop awaits: the provider calls of process_npcs, the broadcast
\* and the sleep between two iterations.
OperatorCommand ==
    /\ commands < MaxCommands
    /\ pc \in {"time", "npcs"}
    /\ \E target \in {"all", "n1", "n9"} : SetWorld(GodAddMemory(World, target))
    /\ commands' = commands + 1
    /\ UNCHANGED <<time, weather, last_weather_check, pc, idx, ticks, decisions,
                   draws, life>>

MemoryNext ==
    \/ UpdateTime /\ UNCHANGED <<life, commands>>
    \/ ProcessNpc /\ UNCHANGED <<life, commands>>
    \/ SocialInteractions /\ UNCHANGED <<life, commands>>
    \/ ProcessBeast /\ UNCHANGED <<life, commands>>
    \/ ProcessResources /\ UNCHANGED <<life, commands>>
    \/ ProcessBuildings /\ UNCHANGED <<life, commands>>
    \/ OperatorCommand

MemorySpec == MemoryInit /\ [][MemoryNext]_vars

\* -------------------------------------------------- beasts around the camp
\* Iterations of main_loop one tick_interval apart (no provider call is
\* awaited: every decision is the provider's "rest") in worlds of a game in
\* progress with one or two wolves next to the agents.
tick_interval == 1

\* a second wolf of generate_beasts
OtherWolf(pos) == [Wolf(pos) EXCEPT !.id = "w2"]

\* an agent in the middle of an action that lasts beyond the run
Busy(n, now) ==
    [n EXCEPT !.current_action = "explore", !.action_state = "executing",
              !.action_end_time = now + 60 * Milli]

\* an agent gathering at the second node, which it occupies
Gathering(n, now) ==
    [n EXCEPT !.current_action = "gather", !.action_target = "r2",
              !.action_state = "executing", !.action_end_time = now + 60 * Milli]

\* "stalk": a wolf that attacked one time unit ago (it is idle, as every
\* attack leaves it) and whose next behaviour evaluation is due, two units
\* from a starving agent that is exploring.
\* "pack": two wolves whose evaluation is due next to an armed agent; the
\* first one is wounded or not, the second agent is idle next to the first
\* or gathering at the second node, 8 or 16 units from the first agent.
PackWorlds ==
    { [name |-> "stalk",
       n1 |-> Busy(Starving(50 * Unit), GetCurrentTime(LaterTime)),
       n2 |-> NewNpc(52 * Unit),
       beasts |-> <<[Wolf(48 * Unit) EXCEPT
                        !.last_attack_time = GetCurrentTime(LaterTime) - 1 * Milli]>>,
       decided |-> GetCurrentTime(LaterTime) - 29 * Milli] }
    \cup
    { [name |-> "pack",
       n1 |-> ArmedBrave(50 * Unit),
       n2 |-> n2,
       beasts |-> <<[Wolf(48 * Unit) EXCEPT !.health = hp], OtherWolf(pos)>>,
       decided |-> 0] :
         hp \in {15 * Unit, 50 * Unit},
         pos \in {49 * Unit, 53 * Unit},
         n2 \in {NewNpc(52 * Unit), ArmedBrave(60 * Unit),
                 Gathering(ArmedBrave(58 * Unit), GetCurrentTime(LaterTime)),
                 Gathering(ArmedTimid(58 * Unit), GetCurrentTime(LaterTime)),
                 Gathering(ArmedBrave(66 * Unit), GetCurrentTime(LaterTime))} }

PackInit ==
    \E s \in PackWorlds :
        /\ time = LaterTime
        /\ weather = "clear"
        /\ last_weather_check = GetCurrentTime(LaterTime)
        /\ npcs = [a \in NPCs |-> IF a = "n1" THEN s.n1 ELSE s.n2]
        /\ npc_last_decision = [a \in NPCs |-> 0]
        /\ resources = [r \in Resources |->
               IF r = "r1" THEN Tree(51 * Unit, 10)
               ELSE [Tree(s.n2.position, 100) EXCEPT
                        !.occupied_by = IF s.n2.current_action = "gather"
                                        THEN "n2" ELSE NULL]]
        /\ beasts = s.beasts
        /\ beast_last_decision = [b \in BeastIds |-> s.decided]
        /\ buildings = <<>>
        /\ active_conversations = {}
        /\ events = <<>>
        /\ global_resources = [k \in GlobalKeys |-> 0]
        /\ next_id = 1
        /\ pc = "time"
        /\ idx = 1
        /\ ticks = 0
        /\ decisions = MaxDecisions
        /\ draws = 0
        /\ commands = 0
        /\ is_running = TRUE /\ waiting_for_client = FALSE
        /\ stopped = FALSE /\ loop = "tick"

PackNext ==
    \/ UpdateTimeBy(tick_interval) /\ UNCHANGED <<life, commands>>
    \/ ProcessNpc /\ UNCHANGED <<life, commands>>
    \/ SocialInteractions /\ UNCHANGED <<life, commands>>
    \/ ProcessBeast /\ UNCHANGED <<life, commands>>
    \/ ProcessResources /\ UNCHANGED <<life, commands>>
    \/ ProcessBuildings /\ UNCHANGED <<life, commands>>

PackSpec == PackInit /\ [][PackNext]_vars

\* =================================================================== claims
\* what the steps of main_loop look like from outside

\* the end of an iteration of main_loop
TickEnd == pc = "time" /\ ticks > 0

\* the step is a beast attack on the NPC a: _beast_attack_npc appends its
\* "beast_attack" event last
Attacked(a) ==
    /\ pc = "beasts"
    /\ Len(events') > Len(events)
    /\ events'[Len(events')] = [type |-> "beast_attack", related_npcs |-> <<a>>]

\* the attack of the step was answered by a successful counter-attack, which
\* is the only code of process_beasts that spends stamina (8 of more than 20)
Countered(a) == npcs'[a].stamina < npcs[a].stamina

\* ----------------------------------------------------------------------- C1
\* C1: the occupant of a resource node never changes from one agent directly
\* to a different agent: a step that leaves a node occupied found it free or
\* occupied by the same agent, so a gather dispatch never takes a node that
\* another agent occupies and two distinct occupants are separated by a release.
C1_NoDirectHandover ==
    [][\A r \in Resources :
          (resources[r].occupied_by # NULL /\ resources'[r].occupied_by # NULL)
              => resources'[r].occupied_by = resources[r].occupied_by]_vars

\* two gather dispatches for the same resource type: the second agent passed
\* over the nearer node, occupied by the first, and took the farther one
C1_Witness ==
    /\ resources["r1"].occupied_by = "n1"
    /\ resources["r2"].occupied_by = "n2"
    /\ npcs["n2"].current_action = "gather"
    /\ CalculateDistance(npcs["n2"].position, resources["r1"].position)
           < CalculateDistance(npcs["n2"].position, resources["r2"].position)

\* ----------------------------------------------------------------------- C2
\* C2 as stated: at the end of every tick no resource node is occupied by an
\* agent whose alive flag is false.
C2_NoDeadOccupant ==
    TickEnd => \A r \in Resources :
                  resources[r].occupied_by # NULL
                      => npcs[resources[r].occupied_by].is_alive

\* ----------------------------------------------------------------------- C3
\* complete_conversation is the only code that clears in_conversation, and it
\* runs only when the talk action of a flagged participant completes.  A
\* flagged agent is orphaned when no living participant of its conversation
\* is still executing talk with a timer.
Orphaned(a) ==
    /\ npcs[a].in_conversation
    /\ ~\E o \in NPCs :
          /\ npcs[o].is_alive
          /\ npcs[o].in_conversation
          /\ npcs[o].conversation_id = npcs[a].conversation_id
          /\ npcs[o].current_action = "talk"
          /\ npcs[o].action_state = "executing"
          /\ npcs[o].action_end_time # NoTime

\* C3 as stated needs every flagged participant to have a completion ahead:
\* no agent is in a conversation that nothing will complete.
C3_NoOrphanedParticipant == \A a \in NPCs : ~Orphaned(a)

\* an orphaned participant stays orphaned, whatever runs afterwards: its
\* in_conversation flag is never cleared and should_make_decision rejects it
C3_OrphanedForever == [][\A a \in NPCs : Orphaned(a) => Orphaned(a)']_vars

\* ----------------------------------------------------------------------- C4
\* C4: the health, the hunger and the stamina of every agent are within
\* [0, 100] in every reachable state.
C4_AttributesInRange ==
    \A a \in NPCs :
        /\ 0 <= npcs[a].health /\ npcs[a].health <= 100 * Unit
        /\ 0 <= npcs[a].hunger /\ npcs[a].hunger <= 100 * Unit
        /\ 0 <= npcs[a].stamina /\ npcs[a].stamina <= 100 * Unit

\* a beast attack whose damage exceeded the health left: the victim stands at
\* 0 and death handling has not run yet
C4_Witness ==
    /\ Len(events) > 0
    /\ events[Len(events)].type = "beast_attack"
    /\ \E a \in NPCs : /\ events[Len(events)].related_npcs = <<a>>
                       /\ npcs[a].health = 0
                       /\ npcs[a].is_alive

\* ----------------------------------------------------------------------- C5
\* C5: death is terminal.  A dead agent has the lifecycle "dead" and no
\* current action; once dead it stays dead and in the agent list, and no step
\* gives it a decision (npc_last_decision), a dispatch (action target and
\* timer) or builder credit (construction skill).
C5_DeathIsTerminal ==
    [][\A a \in NPCs :
          /\ ~npcs'[a].is_alive =>
                 /\ npcs'[a].action_state = "dead"
                 /\ npcs'[a].current_action = NULL
          /\ ~npcs[a].is_alive =>
                 /\ ~npcs'[a].is_alive
                 /\ a \in DOMAIN npcs'
                 /\ npc_last_decision'[a] = npc_last_decision[a]
                 /\ npcs'[a].action_target = npcs[a].action_target
                 /\ npcs'[a].action_end_time = npcs[a].action_end_time
                 /\ npcs'[a].skills["construction"] = npcs[a].skills["construction"]]_vars

\* an agent that died in the middle of an action, two iterations of
\* main_loop ago or more, next to a living agent that is being processed
C5_Witness ==
    \E a \in NPCs, o \in NPCs :
        /\ ~npcs[a].is_alive
        /\ npcs[a].action_target # NULL
        /\ npcs[o].is_alive
        /\ npcs[o].current_action # NULL
        /\ ticks >= 3

\* ----------------------------------------------------------------------- C6
\* C6: death handling on an agent that is already dead changes nothing: no
\* event is added, no memory is added to any agent, no field changes.
C6_DeathHandlingIdempotent ==
    \A a \in NPCs : ~npcs[a].is_alive => HandleNpcDeath(World, a) = World

\* a dead agent with a living agent within the 20 units in which a death is
\* witnessed
C6_Witness ==
    \E a \in NPCs, o \in NPCs :
        /\ ~npcs[a].is_alive
        /\ npcs[o].is_alive
        /\ CalculateDistance(npcs[a].position, npcs[o].position) < 20 * Unit

\* ----------------------------------------------------------------------- C7
\* the step dispatches talk for a next to a living agent that is not in a
\* conversation: initiate_conversation appends "conversation_start", then
\* execute_action appends "npc_action"
TalkDispatched(a) ==
    /\ pc = "npcs" /\ NpcOrder[idx] = a
    /\ ~npcs[a].in_conversation
    /\ Len(events') = Len(events) + 2
    /\ events'[Len(events') - 1].type = "conversation_start"
    /\ events'[Len(events') - 1].related_npcs[1] = a

\* the step is the one in which the talk timer of a has elapsed and
\* complete_npc_action runs for it
TalkElapsed(a) ==
    /\ pc = "npcs" /\ NpcOrder[idx] = a
    /\ npcs[a].is_alive
    /\ npcs[a].in_conversation
    /\ npcs[a].current_action = "talk"
    /\ npcs[a].action_state = "executing"
    /\ npcs[a].action_end_time # NoTime
    /\ Now >= npcs[a].action_end_time
    /\ UpdateNpcAttributes(World, a, 0).npcs[a].is_alive

\* the conversation of a, and the conversation entries of a memory log
ConversationOf(a) ==
    CHOOSE c \in active_conversations : c.id = npcs[a].conversation_id
ConversationEntries(m) == Cardinality({i \in 1..Len(m) : m[i] = "conversation"})

C8_ForcedInterrupt ==
    [][\A a \in NPCs :
          (/\ Attacked(a)
           /\ npcs'[a].is_alive
           /\ ~Countered(a)
           /\ (npcs'[a].health < 50 * Unit \/ ~HasWeapon(npcs'[a])))
          => /\ npcs'[a].current_action = NULL
             /\ npcs'[a].action_target = NULL
             /\ npcs'[a].action_end_time = NoTime
             /\ ~npcs'[a].is_moving
             /\ npcs'[a].move_target = NoPos
             /\ npcs'[a].action_state = "idle"
             /\ \A r \in Resources : resources'[r].occupied_by # a]_vars

\* an unarmed agent with health above 50 that a beast attacked in the tick in
\* which it was dispatched to gather: the dispatch is the event before the
\* attack, and the agent is idle with nothing occupied
C8_Witness ==
    \E a \in NPCs :
        /\ Len(events) >= 3
        /\ events[Len(events)] = [type |-> "beast_attack", related_npcs |-> <<a>>]
        /\ \E k \in 1..(Len(events) - 1) :
              events[k] = [type |-> "npc_action", related_npcs |-> <<a>>]
        /\ npcs[a].is_alive /\ npcs[a].health >= 50 * Unit /\ ~HasWeapon(npcs[a])
        /\ npcs[a].current_action = NULL /\ npcs[a].action_state = "idle"
        /\ npcs[a].memories = <<"beast_attack">>
        /\ \A r \in Resources : resources[r].occupied_by = NULL
        /\ resources["r1"].quantity = 10

\* ----------------------------------------------------------------------- C9
\* C9 as stated: after every beast attack on a living agent the victim's
\* current action is cleared and its lifecycle is idle.
C9_AlwaysInterrupted ==
    [][\A a \in NPCs :
          (Attacked(a) /\ npcs'[a].is_alive)
              => npcs'[a].current_action = NULL /\ npcs'[a].action_state = "idle"]_vars

\* C9 amended: a beast attack on a living agent clears the victim's current
\* action and makes it idle when no counter-attack succeeded and the attack
\* leaves the victim unarmed or with health below 50; after a successful
\* counter-attack, or when the victim is armed with health 50 or more, the
\* attack leaves its current action and its lifecycle as they were.
C9_InterruptedWhenFleeing ==
    [][\A a \in NPCs :
          (Attacked(a) /\ npcs'[a].is_alive)
              => IF ~Countered(a)
                    /\ (npcs'[a].health < 50 * Unit \/ ~HasWeapon(npcs'[a]))
                 THEN /\ npcs'[a].current_action = NULL
                      /\ npcs'[a].action_state = "idle"
                 ELSE /\ npcs'[a].current_action = npcs[a].current_action
                      /\ npcs'[a].action_state = npcs[a].action_state]_vars

\* an armed agent that was attacked while executing an action and still
\* executes it: the attack is the last event
C9_Witness ==
    \E a \in NPCs :
        /\ Len(events) > 0
        /\ events[Len(events)] = [type |-> "beast_attack", related_npcs |-> <<a>>]
        /\ npcs[a].is_alive /\ HasWeapon(npcs[a])
        /\ npcs[a].current_action # NULL
        /\ npcs[a].action_state = "executing"

\* ---------------------------------------------------------------------- C10
\* the step completes the gather action of a: complete_npc_action runs for it
\* and leaves it cooling
GatherCompleted(a) ==
    /\ pc = "npcs" /\ NpcOrder[idx] = a
    /\ npcs[a].current_action = "gather"
    /\ npcs[a].action_state = "executing"
    /\ npcs[a].action_target \in Resources
    /\ npcs'[a].action_state = "cooling"

\* C10: a gather action that completes while the agent is more than 2.0 units
\* from its target node leaves the agent's inventory, the node's quantity,
\* depleted flag and occupant, and the global resource totals unchanged.
C10_OutOfRangeGather ==
    [][\A a \in NPCs :
          (/\ GatherCompleted(a)
           /\ CalculateDistance(npcs'[a].position,
                                resources[npcs[a].action_target].position) > GATHER_RANGE)
          => /\ npcs'[a].inventory = npcs[a].inventory
             /\ resources'[npcs[a].action_target].quantity
                    = resources[npcs[a].action_target].quantity
             /\ resources'[npcs[a].action_target].is_depleted
                    = resources[npcs[a].action_target].is_depleted
             /\ resources'[npcs[a].action_target].occupied_by
                    = resources[npcs[a].action_target].occupied_by
             /\ global_resources' = global_resources]_vars

\* an agent cooling after a gather that completed on the way to its node,
\* still more than 2.0 units away: nothing gathered, the node still occupied
C10_Witness ==
    \E a \in NPCs :
        /\ npcs[a].current_action = "gather"
        /\ npcs[a].action_state = "cooling"
        /\ npcs[a].action_target \in Resources
        /\ CalculateDistance(npcs[a].position,
                             resources[npcs[a].action_target].position) > GATHER_RANGE
        /\ resources[npcs[a].action_target].occupied_by = a
        /\ npcs[a].inventory["wood"] = 0
        /\ global_resources["wood"] = 0


\* ---------------------------------------------------------------------- C11
\* the step completes the gather action of a within range of a node that is
\* not depleted: complete_gather_action takes from the node
GatherSucceeded(a) ==
    /\ GatherCompleted(a)
    /\ CalculateDistance(npcs'[a].position,
                         resources[npcs[a].action_target].position) <= GATHER_RANGE
    /\ ~resources[npcs[a].action_target].is_depleted

\* every node has 0 <= quantity <= max_quantity and is depleted exactly when
\* its quantity is 0
QuantityInRange(res) ==
    \A r \in Resources :
        /\ 0 <= res[r].quantity /\ res[r].quantity <= res[r].max_quantity
        /\ res[r].is_depleted <=> (res[r].quantity = 0)

\* C11: a gather of the requested amount r from a node with quantity q adds
\* min(r, q) to the inventory, leaves q - min(r, q) in the node and marks the
\* node depleted exactly when nothing is left; in every state every node has
\* 0 <= quantity <= max_quantity and is depleted iff its quantity is 0.
C11_GatherYieldCapped ==
    [][/\ QuantityInRange(resources) /\ QuantityInRange(resources')
       /\ \A a \in NPCs :
             GatherSucceeded(a) =>
                 LET t == npcs[a].action_target
                     q == resources[t].quantity
                     r == GatherAmount(resources[t].type, npcs[a].equipment)
                     yield == IF r < q THEN r ELSE q
                 IN /\ npcs'[a].inventory[resources[t].type]
                           = npcs[a].inventory[resources[t].type] + yield
                    /\ resources'[t].quantity = q - yield
                    /\ resources'[t].is_depleted <=> (q - yield = 0)]_vars

\* the node that held 3 wood after a gather that asked for 5: the agent got
\* 3, the node is empty and depleted
C11_Witness ==
    \E a \in NPCs :
        /\ npcs[a].current_action = "gather" /\ npcs[a].action_target = "r1"
        /\ npcs[a].action_state = "cooling"
        /\ npcs[a].inventory["wood"] = 3
        /\ resources["r1"].quantity = 0 /\ resources["r1"].is_depleted
        /\ global_resources["wood"] = 3

\* ---------------------------------------------------------------------- C12
\* the regeneration delay of a resource type in sim-days, on the clock of
\* get_current_time, which counts sim-minutes
SimDayDelay(type) ==
    CASE type = "wood" -> 2 * 24 * 60 * Milli
      [] type = "stone" -> 3 * 24 * 60 * Milli
      [] type = "berry" -> 36 * 60 * Milli
      [] type = "water" -> 24 * 60 * Milli
      [] OTHER -> 2 * 24 * 60 * Milli

\* C12: a depleted node is reset by the first resource pass at which the
\* clock has advanced by its type's delay in sim-days since the depletion, so
\* at the end of an iteration no node is still depleted that long after.
C12_RegeneratedOnTime ==
    TickEnd =>
        \A r \in Resources :
            resources[r].is_depleted =>
                Now - resources[r].depleted_time < SimDayDelay(resources[r].type)


\* ---------------------------------------------------------------------- C13
\* the step sets the action timer of the idle agent a, for an action other
\* than build
TimerSet(a) ==
    /\ npcs[a].action_state = "idle"
    /\ npcs'[a].action_end_time # npcs[a].action_end_time
    /\ npcs'[a].action_end_time # NoTime
    /\ npcs'[a].current_action # "build"

\* C13: the duration given at dispatch to an action other than build is at
\* least 5 and at most 120, whatever the agent's stamina, health and skill
\* and the node's quantity.
C13_DurationClamped ==
    [][\A a \in NPCs :
          TimerSet(a) => /\ npcs'[a].action_end_time - Now >= 5 * Milli
                         /\ npcs'[a].action_end_time - Now <= 120 * Milli]_vars

\* a tired, wounded agent dispatched to flee: 3 x 1.3 x 1.2 = 4.68 is raised
\* to 5
C13_Witness ==
    /\ npcs["n1"].current_action = "flee"
    /\ npcs["n1"].stamina < 30 * Unit /\ npcs["n1"].health < 50 * Unit
    /\ npcs["n1"].action_end_time = Now + 5 * Milli


\* ---------------------------------------------------------------------- C14
\* C14: an agent executing build is never taken out of it by its action
\* timer: an iteration of process_npcs that finds the timer of a living
\* builder expired leaves the agent executing build.
C14_BuildNotTimed ==
    [][\A a \in NPCs :
          (/\ pc = "npcs" /\ NpcOrder[idx] = a
           /\ npcs[a].current_action = "build"
           /\ npcs[a].action_state = "executing"
           /\ npcs[a].action_end_time # NoTime
           /\ Now >= npcs[a].action_end_time
           /\ npcs'[a].is_alive)
          => /\ npcs'[a].current_action = "build"
             /\ npcs'[a].action_state = "executing"]_vars


\* ---------------------------------------------------------------------- C15
\* the step is execute_action of agent a for a build of type t
BuildDispatched(a, t) ==
    \E inp \in BuildInputs(t) :
        World' = ExecuteAction(World, a, [action |-> "build", target |-> t], Now, inp)

HoldsMaterials(a, t) ==
    /\ npcs[a].inventory["wood"] >= BuildingDef(t).wood
    /\ npcs[a].inventory["stone"] >= BuildingDef(t).stone

\* a finished building of the type: anywhere for the unique types, within 20
\* units of the agent for the others
BlockingDuplicate(a, t) ==
    \E i \in 1..Len(buildings) :
        /\ buildings[i].type = t /\ buildings[i].is_complete
        /\ \/ t \in UniqueBuildingTypes
           \/ CalculateDistance(npcs[a].position, buildings[i].position) < 20 * Unit

NearbyInProgress(a, t) ==
    \E i \in 1..Len(buildings) :
        /\ buildings[i].type = t /\ ~buildings[i].is_complete
        /\ CalculateDistance(npcs[a].position, buildings[i].position) < 15 * Unit

\* the step adds one building of type t, not started, paid for by a
BuildingAdded(a, t) ==
    /\ Len(buildings') = Len(buildings) + 1
    /\ SubSeq(buildings', 1, Len(buildings)) = buildings
    /\ LET b == buildings'[Len(buildings')]
       IN /\ b.type = t /\ ~b.is_complete /\ b.progress = 0
          /\ \A i \in 1..Len(buildings) : buildings[i].id # b.id
          /\ npcs'[a].action_target = b.id
    /\ npcs'[a].current_action = "build"
    /\ npcs'[a].inventory =
           [k \in Items |->
               CASE k = "wood" -> npcs[a].inventory[k] - BuildingDef(t).wood
                 [] k = "stone" -> npcs[a].inventory[k] - BuildingDef(t).stone
                 [] OTHER -> npcs[a].inventory[k]]

\* C15: a build dispatched by an agent that holds the materials, with no
\* blocking duplicate and no building of the type in progress nearby, adds in
\* that step exactly one building, not complete and with progress 0, takes
\* exactly the requirements from the inventory and makes the new building
\* the action target; a build dispatched without the materials adds no
\* building and leaves the inventory as it was.
C15_BuildDispatchAtomic ==
    [][\A t \in BuildingTypes :
          BuildDispatched("n1", t) =>
              /\ (HoldsMaterials("n1", t) /\ ~BlockingDuplicate("n1", t)
                                          /\ ~NearbyInProgress("n1", t))
                     => BuildingAdded("n1", t)
              /\ ~HoldsMaterials("n1", t)
                     => /\ buildings' = buildings
                        /\ npcs'["n1"].inventory = npcs["n1"].inventory]_vars

\* n1 has paid its 5 wood for a new campfire, in a world whose only other
\* campfire is in progress 20 units away
C15_Witness ==
    /\ decisions = 1
    /\ Len(buildings) = 2
    /\ buildings[1].type = "campfire" /\ ~buildings[1].is_complete
    /\ buildings[2].type = "campfire" /\ buildings[2].progress = 0
    /\ npcs["n1"].action_target = buildings[2].id
    /\ npcs["n1"].inventory["wood"] = 0


\* ---------------------------------------------------------------------- C16
\* the living agents that build the k-th building from less than 5 units away
BuildersOf(k) ==
    {a \in NPCs : /\ npcs[a].is_alive
                  /\ npcs[a].current_action = "build"
                  /\ npcs[a].action_target = buildings[k].id
                  /\ CalculateDistance(npcs[a].position, buildings[k].position)
                         < 5 * Unit}

\* (dt / build_time_total) * (1 + 0.5 * (n - 1)) with dt = 1, in the unit of
\* progress, 1 / (2 * build_time_total)
CooperativeGain(n) == 2 + (n - 1)

\* a pass of process_buildings over a building that is not complete
ConstructionPass(k) ==
    /\ pc = "buildings"
    /\ k \in 1..Len(buildings)
    /\ ~buildings[k].is_complete

\* C16 as stated: a construction pass adds exactly the cooperative gain of
\* its n >= 1 active builders to the progress of an incomplete building, and
\* nothing with no active builder.
C16_ExactGain ==
    [][\A k \in 1..Len(buildings) :
          ConstructionPass(k) =>
              LET n == Cardinality(BuildersOf(k))
              IN buildings'[k].progress =
                     buildings[k].progress + (IF n = 0 THEN 0 ELSE CooperativeGain(n))]_vars

\* C16, amended: the progress of an incomplete building with n >= 1 active
\* builders, recomputed in that pass, rises by the cooperative gain up to the
\* value of a complete building, where it saturates; it stays with no active
\* builder; a building that requires cooperation gets the gain of n = 1 from
\* a single builder.
C16_GainUpToCompletion ==
    [][\A k \in 1..Len(buildings) :
          ConstructionPass(k) =>
              LET n == Cardinality(BuildersOf(k))
                  full == 2 * buildings[k].build_time_total
              IN /\ SeqToSet(buildings'[k].builders) = BuildersOf(k)
                 /\ n = 0 => buildings'[k].progress = buildings[k].progress
                 /\ n >= 1 => buildings'[k].progress =
                                  Min(full, buildings[k].progress + CooperativeGain(n))
                 /\ (n = 1 /\ buildings[k].requires_cooperation
                           /\ buildings[k].progress + 2 <= full)
                        => buildings'[k].progress = buildings[k].progress + 2]_vars

\* the hut that needs two builders, two gains of 3 and one gain of 2 after
\* its start: the last pass had a single builder
C16_Witness ==
    /\ TickEnd
    /\ Len(buildings) = 1
    /\ buildings[1].requires_cooperation
    /\ buildings[1].progress = 471 + 3 + 3 + 2
    /\ buildings[1].builders = <<"n1">>


\* ---------------------------------------------------------------------- C17
\* the number of build_complete events in a list of events
CompletionEvents(ev) ==
    Cardinality({i \in 1..Len(ev) : ev[i].type = "build_complete"})

\* the buildings that the step completes
CompletedInStep ==
    {k \in 1..Len(buildings) : ~buildings[k].is_complete /\ buildings'[k].is_complete}

\* progress within [0, 1], complete exactly at 1
ProgressInRange(b) ==
    /\ b.progress >= 0 /\ b.progress <= 2 * b.build_time_total
    /\ b.is_complete <=> b.progress = 2 * b.build_time_total

\* C17: no step removes a building, lowers its progress or takes it out of
\* [0, 1]; a building is complete exactly when its progress is 1; a complete
\* building stays complete; a step appends one build_complete event for each
\* building that it completes and none otherwise, so each building has
\* exactly one.
C17_ConstructionMonotone ==
    [][/\ Len(buildings') >= Len(buildings)
       /\ \A k \in 1..Len(buildings) :
             /\ buildings'[k].id = buildings[k].id
             /\ ProgressInRange(buildings[k]) /\ ProgressInRange(buildings'[k])
             /\ buildings'[k].progress >= buildings[k].progress
             /\ buildings[k].is_complete => buildings'[k].is_complete
       /\ Len(events') < EventCap =>
             CompletionEvents(events') =
                 CompletionEvents(events) + Cardinality(CompletedInStep)]_vars

\* the campfire that was under construction has been complete for two ticks
\* and the log holds its one build_complete event
C17_Witness ==
    /\ TickEnd /\ ticks >= 4
    /\ Len(buildings) = 1
    /\ buildings[1].type = "campfire"
    /\ buildings[1].is_complete
    /\ CompletionEvents(events) = 1


\* ---------------------------------------------------------------------- C18
\* the completed buildings of type t
CompletedOfType(t) ==
    {k \in 1..Len(buildings) : buildings[k].type = t /\ buildings[k].is_complete}

\* C18: the world never holds more than one completed campfire, lean-to or
\* wooden hut.
C18_UniqueCompleted ==
    \A t \in UniqueBuildingTypes : Cardinality(CompletedOfType(t)) <= 1


\* ---------------------------------------------------------------------- C19
\* the step evaluates the behaviour of the i-th beast
Evaluated(i) ==
    beast_last_decision'[beasts[i].id] # beast_last_decision[beasts[i].id]

\* C19: an evaluation of the behaviour of an aggressive beast whose health is
\* below 30% of its maximum leaves it fleeing, whoever is near and whatever
\* its state was.
C19_LowHealthFlee ==
    [][\A i \in 1..Len(beasts) :
          (/\ Evaluated(i)
           /\ beasts[i].aggression > 50
           /\ 100 * beasts[i].health < 30 * beasts[i].max_health)
          => beasts'[i].state = "fleeing"]_vars

\* the wolf at 14 of 50, next to one unarmed agent that it would otherwise
\* chase, has been evaluated and flees
C19_Witness ==
    /\ decisions = 1
    /\ beasts[1].aggression > 50
    /\ beasts[1].health = 14 * Unit /\ beasts[1].max_health = 50 * Unit
    /\ beasts[1].state = "fleeing"
    /\ npcs["n1"].is_alive /\ ~HasWeapon(npcs["n1"]) /\ ~HasWeapon(npcs["n2"])
    /\ CalculateDistance(beasts[1].position, npcs["n1"].position) < 15 * Unit


\* ---------------------------------------------------------------------- C20
\* the step is the iteration of process_beasts in which the i-th beast chases
\* agent a: after its evaluation, if any, the beast is chasing a
ChaseMovement(i, a) ==
    /\ pc = "beasts" /\ idx = i
    /\ beasts'[i].state = "chasing"
    /\ beasts'[i].target_npc = a

\* C20: a chase movement that starts further than the attack range from the
\* target brings the beast closer but not nearer than the attack range to
\* where the target stands, and one that starts within the attack range
\* leaves the beast where it is.
C20_StopsAtAttackRange ==
    [][\A i \in 1..Len(beasts) : \A a \in NPCs :
          ChaseMovement(i, a) =>
              LET before == CalculateDistance(beasts[i].position, npcs[a].position)
                  after == CalculateDistance(beasts'[i].position, npcs[a].position)
              IN /\ before > ATTACK_RANGE => after >= ATTACK_RANGE /\ after <= before
                 /\ before <= ATTACK_RANGE
                        => beasts'[i].position = beasts[i].position]_vars

\* the wolf has closed in on the agent it chases and stands exactly at its
\* attack range
C20_Witness ==
    /\ pc = "resources"
    /\ beasts[1].state = "chasing"
    /\ beasts[1].target_npc \in NPCs
    /\ beasts[1].position # 48 * Unit
    /\ CalculateDistance(beasts[1].position, npcs[beasts[1].target_npc].position)
           = ATTACK_RANGE


\* ---------------------------------------------------------------------- C21
\* the range of the agent's weapon: 2.5, or 4.5 with a spear
WeaponRange(n) == IF "spear" \in n.equipment THEN 450 ELSE 250

\* the step of agent a removes the i-th beast or lowers its health
BeastHit(i) ==
    IF Len(beasts') < Len(beasts) THEN TRUE
    ELSE beasts'[i].health < beasts[i].health

\* C21: the hunt or defend of an agent damages a beast only from within the
\* range of the agent's weapon.
C21_AttackWithinRange ==
    [][\A i \in 1..Len(beasts) :
          (pc = "npcs" /\ BeastHit(i))
          => CalculateDistance(npcs'[NpcOrder[idx]].position, beasts[i].position)
                 <= WeaponRange(npcs[NpcOrder[idx]])]_vars


\* ---------------------------------------------------------------------- C22
\* some agent gains in the step the meat of a beast of type t
MeatLooted(t) ==
    \E a \in NPCs :
        npcs'[a].inventory["raw_meat"] = npcs[a].inventory["raw_meat"] + MeatAmount(t)

\* the number of beast_killed events in a list of events
KillEvents(ev) == Cardinality({k \in 1..Len(ev) : ev[k].type = "beast_killed"})

\* C22: no step leaves a beast with health 0 or less in the world or adds a
\* beast; a step that removes a beast gives its meat to an agent and logs the
\* kill.
C22_KilledBeastRemoved ==
    [][/\ \A i \in 1..Len(beasts') : beasts'[i].health > 0
       /\ Len(beasts') <= Len(beasts)
       /\ Len(beasts') < Len(beasts)
             => /\ \E i \in 1..Len(beasts) : MeatLooted(beasts[i].type)
                /\ Len(events') < EventCap => KillEvents(events') = KillEvents(events) + 1]_vars

\* the wolf is gone and an agent holds its 3 pieces of meat
C22_Witness ==
    /\ Len(beasts) = 0
    /\ \E a \in NPCs : npcs[a].inventory["raw_meat"] = 3


\* ---------------------------------------------------------------------- C23
\* the step asks the decision provider for agent a: process_npc_decision
\* stamps the decision, or sets the action "idle" when the dispatch raised
ProviderAsked(a) ==
    \/ npc_last_decision'[a] # npc_last_decision[a]
    \/ npcs'[a].current_action = "idle" /\ npcs[a].current_action # "idle"

\* health < 30 or hunger > 80 or stamina < 10
Urgent(n) == n.health < 30 * Unit \/ n.hunger > 80 * Unit \/ n.stamina < 10 * Unit

\* C23: the provider is asked for an agent only in the agent's own iteration
\* of process_npcs, when the agent is alive, idle and not in a conversation,
\* and is urgent or took its last decision at least the decision interval
\* ago.
C23_DecisionEligibility ==
    [][\A a \in NPCs :
          ProviderAsked(a) =>
              /\ pc = "npcs" /\ NpcOrder[idx] = a
              /\ npcs[a].is_alive /\ npcs'[a].is_alive
              /\ npcs[a].action_state = "idle"
              /\ ~npcs[a].in_conversation
              /\ \/ Urgent(npcs'[a])
                 \/ Now - npc_last_decision[a] >= 30 * Milli]_vars

\* an urgent agent whose build failed for want of materials in the first
\* tick has been given another decision in the second, before the decision
\* interval has elapsed
C23_Witness ==
    /\ ticks = 1 /\ pc = "social"
    /\ \E a \in NPCs : /\ Urgent(npcs[a])
                       /\ npc_last_decision[a] = Now
                       /\ npcs[a].action_state = "executing"
                       /\ \E k \in 1..Len(npcs[a].memories) :
                              npcs[a].memories[k] = "build_attempt_failed"


\* ---------------------------------------------------------------------- C24
\* the node of the type nearest to agent a among those less than reach away
NearestNode(a, type, reach) ==
    LET near == {r \in Resources :
                    /\ resources[r].type = type
                    /\ CalculateDistance(npcs[a].position, resources[r].position) < reach}
    IN IF near = {} THEN NULL
       ELSE CHOOSE r \in near : \A q \in near :
                CalculateDistance(npcs[a].position, resources[r].position)
                    <= CalculateDistance(npcs[a].position, resources[q].position)

\* the fallback policy: health < 30 -> rest; hunger > 80 -> eat a berry held,
\* else seek the nearest berry bush; stamina < 20 -> rest; else gather the
\* nearest wood; else explore
FallbackPolicy(a) ==
    LET n == npcs[a]
    IN IF n.health < 30 * Unit THEN [action |-> "rest", target |-> NULL]
       ELSE IF n.hunger > 80 * Unit /\ n.inventory["berry"] > 0
       THEN [action |-> "eat", target |-> "berry"]
       ELSE IF n.hunger > 80 * Unit /\ NearestNode(a, "berry", 20 * Unit) # NULL
       THEN [action |-> "gather", target |-> NearestNode(a, "berry", 20 * Unit)]
       ELSE IF n.stamina < 20 * Unit THEN [action |-> "rest", target |-> NULL]
       ELSE IF NearestNode(a, "wood", 30 * Unit) # NULL
       THEN [action |-> "gather", target |-> NearestNode(a, "wood", 30 * Unit)]
       ELSE [action |-> "explore", target |-> NULL]

\* C24: whenever the provider fails (the call raises, or its output is not
\* parseable or not a decision object) the step is the dispatch of the action
\* that the fallback policy assigns to the agent's state.
C24_FallbackOnFailure ==
    [][\E inp \in DecisionInputs(FallbackPolicy("n1")) :
          World' = ProcessNpcDecision(World, "n1", Now, FallbackPolicy("n1"), inp)]_vars


\* ---------------------------------------------------------------------- C25
\* the step dispatches a decision for agent a that fails validation: the
\* provider was asked and the dispatch left the agent idle, its action cleared
DispatchRejected(a) ==
    /\ pc = "npcs" /\ NpcOrder[idx] = a
    /\ npc_last_decision'[a] # npc_last_decision[a]
    /\ npcs'[a].action_state = "idle"
    /\ npcs'[a].current_action = NULL

\* C25: a dispatch that fails validation leaves the agent idle with no
\* action, changes no inventory, building or occupancy, and adds the reason
\* of the failure to the agent's memory.
C25_FailureRecorded ==
    [][\A a \in NPCs :
          DispatchRejected(a) =>
              /\ npcs'[a].inventory = npcs[a].inventory
              /\ buildings' = buildings
              /\ \A r \in Resources : resources'[r].occupied_by = resources[r].occupied_by
              /\ Len(npcs'[a].memories) > Len(npcs[a].memories)]_vars

\* ---------------------------------------------------------------------- C26
\* the step is a stage of the iteration that raises up to main_loop
TickFailed == loop = "tick" /\ loop' = "except"

\* main_loop has been created
InMainLoop == loop \in {"head", "tick", "broadcast", "sleep", "except", "done"}

\* C26: a stage that raises does not halt the loop.  The failed iteration
\* goes to the sleep of the except clause with the running flag as it was,
\* that sleep leads back to the test of the while loop, the test starts
\* another iteration whenever the flag is set, main_loop returns only when
\* the flag is off, and once main_loop exists only stop() changes the flag.
C26_FailureNeverHalts ==
    [][/\ TickFailed => is_running' = is_running
       /\ loop = "except" => loop' \in {"except", "head"}
       /\ (loop = "head" /\ is_running) => loop' \in {"head", "tick"}
       /\ (loop # "done" /\ loop' = "done") => (loop = "head" /\ ~is_running /\ stopped)
       /\ (InMainLoop /\ is_running' # is_running) => (stopped' /\ ~is_running')]_vars

\* an iteration has failed inside complete_conversation (the flags of both
\* participants are cleared, the conversation is still in the active set),
\* nobody has called stop(), and the next iteration is under way
C26_Witness ==
    /\ loop = "tick" /\ pc = "npcs"
    /\ is_running /\ ~stopped
    /\ \E c \in active_conversations :
           \A o \in SeqToSet(c.participants) : ~npcs[o].in_conversation

\* ---------------------------------------------------------------------- C27
\* C27 as stated: once stop() has been called no iteration begins and the
\* running flag stays off (so that a second stop() changes nothing),
\* whatever the order of stop(), start_game and the client-ready signal.
C27_StopEffective ==
    [][stopped =>
          /\ ~(loop # "tick" /\ loop' = "tick")
          /\ ~is_running']_vars

\* ---------------------------------------------------------------------- C28
\* C28 as stated: while the broadcast callback of the last snapshot has not
\* returned, a running main_loop can still take a step of its own towards
\* the next iteration.
C28_ObserverNeverBlocks ==
    (loop = "broadcast" /\ is_running) => ENABLED MainLoop

\* ---------------------------------------------------------------------- C30
\* the step is the iteration of process_beasts for the i-th beast, which was
\* chasing the living agent a from no further than reach with its attack
\* cooldown over, and which is still there and chasing a after the step
ChasingWithin(i, a, reach) ==
    /\ pc = "beasts" /\ idx = i
    /\ beasts[i].state = "chasing" /\ beasts[i].target_npc = a
    /\ npcs[a].is_alive
    /\ CalculateDistance(beasts[i].position, npcs[a].position) \in reach
    /\ Now - beasts[i].last_attack_time >= attack_cooldown
    /\ Len(beasts') = Len(beasts)
    /\ beasts'[i].state = "chasing" /\ beasts'[i].target_npc = a

\* C30 as stated: a chasing beast whose living target is at most 2.5 away
\* and whose last attack is at least 3 time units old attacks in that tick.
C30_AttacksOnceInRange ==
    [][\A i \in 1..Len(beasts) : \A a \in NPCs :
          ChasingWithin(i, a, 0..ATTACK_RANGE) => Attacked(a)]_vars

\* ---------------------------------------------------------------------- C29
\* the step is a step of the simulation that changes the log of agent a,
\* which already held MemoryTrimAt entries or more
SimulationOverflow(a) ==
    /\ commands' = commands
    /\ Len(npcs[a].memories) >= MemoryTrimAt
    /\ npcs'[a].memories # npcs[a].memories

\* the log m2 is what the trim leaves of the log m1 and of at most four new
\* entries (complete_npc_action trims even when it has appended nothing):
\* the most recent entries of m1 followed by the new ones, MemoryKeep in
\* all, or one more when an entry was appended after the trim
TrimmedFrom(m1, m2) ==
    /\ Len(m2) \in {MemoryKeep, MemoryKeep + 1}
    /\ \E j \in (MemoryKeep - 4)..MemoryKeep : SubSeq(m2, 1, j) = LastN(m1, j)

FallbackGathers(a) ==
    /\ FallbackPolicy(a).action = "gather"
    /\ ~resources[FallbackPolicy(a).target].is_depleted
    /\ resources[FallbackPolicy(a).target].occupied_by = NULL

\* the step is the dispatch of the fallback decision of agent a
FallbackDispatched(a) ==
    \E inp \in DecisionInputs(FallbackPolicy(a)) :
        World' = ProcessNpcDecision(World, a, Now, FallbackPolicy(a), inp)

\* C31: when the fallback policy returns gather for the nearest wood or berry
\* node and that node is neither depleted nor occupied, the dispatch of that
\* decision leaves the agent executing gather with that node as its action
\* target and the node occupied by the agent.
C31_FallbackGatherGathers ==
    [][(FallbackGathers("n1") /\ FallbackDispatched("n1")) =>
          /\ npcs'["n1"].action_state = "executing"
          /\ npcs'["n1"].current_action = "gather"
          /\ npcs'["n1"].action_target = FallbackPolicy("n1").target
          /\ resources'[FallbackPolicy("n1").target].occupied_by = "n1"]_vars



\* ---------------------------------------------------------------------- C32
\* the step is the pass of process_npcs over the living agent a
OwnPass(a) == pc = "npcs" /\ NpcOrder[idx] = a /\ npcs[a].is_alive

\* the action timer of a has expired
TimerExpired(a) ==
    /\ npcs[a].action_end_time # NoTime
    /\ npcs[a].action_end_time # 0
    /\ Now >= npcs[a].action_end_time

C32_CoolingUnlessRaised ==
    [][\A a \in NPCs :
          /\ (OwnPass(a) /\ npcs[a].action_state = "executing" /\ TimerExpired(a)
                  /\ npcs'[a].is_alive /\ ticks' = ticks)
                => /\ npcs'[a].action_state = "cooling"
                   /\ npcs'[a].action_end_time - Now \in (2 * Milli)..(5 * Milli)
          /\ (pc # "beasts" /\ npcs[a].action_state = "executing")
                => npcs'[a].action_state # "idle"
          /\ (pc # "beasts" /\ npcs[a].action_state = "cooling"
                  /\ npcs'[a].action_state = "idle")
                => OwnPass(a) /\ TimerExpired(a)
          /\ (OwnPass(a) /\ npcs[a].action_state = "cooling" /\ TimerExpired(a)
                  /\ npcs'[a].is_alive)
                => npcs'[a].action_state = "idle"]_vars



C35_OnlyLivingAttacked ==
    [][\A a \in NPCs :
          /\ Attacked(a) => npcs[a].is_alive
          /\ ~npcs[a].is_alive =>
                /\ npcs'[a].health = npcs[a].health
                /\ npcs'[a].memories = npcs[a].memories]_vars



\* ---------------------------------------------------------------------- C34
\* the beast of the list whose id is b, as a set of indices
BeastAt(b) == {i \in 1..Len(beasts) : beasts[i].id = b}

\* the behaviour evaluation of the beast b is due at the clock value now
EvaluationDue(b, now) == now - beast_last_decision[b] >= beast_decision_interval

\* C34: every beast that is in the world when a beast pass ends has had its
\* update in that pass: none is left with a behaviour evaluation that was
\* due (the update starts with it), whether or not another beast was killed
\* by a counter-attack and removed during the pass.
C34_EveryBeastUpdated ==
    pc = "resources" =>
        \A b \in BeastIds : BeastAt(b) # {} => ~EvaluationDue(b, Now)



\* ---------------------------------------------------------------------- C36
\* the decision to flee
FleeDecision == [action |-> "flee", target |-> NULL]

\* the step is the pass over agent a, whose micro-movement is dx, in which
\* the provider is asked and answers flee
FleeDispatched(a, dx) ==
    /\ OwnPass(a)
    /\ WillDecide(World, a, Now, dx)
    /\ \E inp \in DecisionInputs(FleeDecision) :
           World' = ProcessOneNpc(World, a, Now, dx, FleeDecision, inp)

\* the escape point of agent a in the world w: 15 units away from the
\* danger, kept in [10, 90] by the evasion computation and in [5, 95] by the
\* dispatch
EscapePoint(w, a) ==
    Max(5 * Unit, Min(95 * Unit,
        Max(10 * Unit, Min(90 * Unit,
            w.npcs[a].position - DangerSide(w, a) * 15 * Unit))))

\* C36: a flee dispatched with an aggressive beast within 40 units puts the
\* agent, in the same step, at the escape point clamped into [5, 95] and
\* leaves it executing flee, whatever buildings exist in the world.
C36_FleeRelocates ==
    [][\A a \in NPCs : \A dx \in {0} \cup MicroMoves :
          (FleeDispatched(a, dx) /\ Threats(UpdateNpcAttributes(World, a, dx), a) # {})
              => /\ npcs'[a].position = EscapePoint(UpdateNpcAttributes(World, a, dx), a)
                 /\ npcs'[a].position >= 5 * Unit /\ npcs'[a].position <= 95 * Unit
                 /\ npcs'[a].action_state = "executing"
                 /\ npcs'[a].current_action = "flee"]_vars



\* ---------------------------------------------------------------------- C37
\* the memory log m with one more entry, trimmed as every log is
WithEntry(m, tag) ==
    IF Len(m) + 1 > MemoryTrimAt THEN LastN(Append(m, tag), MemoryKeep)
    ELSE Append(m, tag)

\* an agent that comes to help: armed, healthy and brave
CanHelp(n) == HasWeapon(n) /\ n.health > 50 * Unit /\ n.bravery > 30

\* C37: on every beast attack, every other living agent less than 15 units
\* from the victim gets exactly one witness memory, and each of them that is
\* armed, with health above 50 and bravery above 30 is idle after the step,
\* its action, target and timer cleared and no node occupied by it; the
\* living agents more than 15 units away are unchanged.
C37_WitnessPropagation ==
    [][\A a \in NPCs : \A o \in NPCs \ {a} :
          (Attacked(a) /\ npcs[o].is_alive) =>
              /\ CalculateDistance(npcs[a].position, npcs[o].position) < 15 * Unit
                    => /\ npcs'[o].memories = WithEntry(npcs[o].memories, "witness_attack")
                       /\ CanHelp(npcs[o]) =>
                             /\ npcs'[o].action_state = "idle"
                             /\ npcs'[o].current_action = NULL
                             /\ npcs'[o].action_target = NULL
                             /\ npcs'[o].action_end_time = NoTime
                             /\ \A r \in Resources : resources'[r].occupied_by # o
              /\ CalculateDistance(npcs[a].position, npcs[o].position) > 15 * Unit
                    => /\ npcs'[o] = npcs[o]
                       /\ \A r \in Resources :
                              resources[r].occupied_by = o => resources'[r].occupied_by = o]_vars

\* an armed, brave agent that was gathering at the node it occupied has seen
\* the attack on the other agent from 8 units: it is idle, the node is free
C37_Witness ==
    /\ events # <<>>
    /\ events[Len(events)] = [type |-> "beast_attack", related_npcs |-> <<"n1">>]
    /\ pc = "beasts"
    /\ npcs["n2"].memories = <<"witness_attack">>
    /\ CanHelp(npcs["n2"])
    /\ CalculateDistance(npcs["n1"].position, npcs["n2"].position) = 8 * Unit
    /\ npcs["n2"].action_state = "idle" /\ npcs["n2"].current_action = NULL
    /\ npcs["n2"].stamina < 100 * Unit
    /\ resources["r2"].occupied_by = NULL

\* an agent 16 units from the victim of an attack goes on gathering
C37_FarWitness ==
    /\ events # <<>>
    /\ events[Len(events)] = [type |-> "beast_attack", related_npcs |-> <<"n1">>]
    /\ pc = "beasts"
    /\ CalculateDistance(npcs["n1"].position, npcs["n2"].position) > 15 * Unit
    /\ npcs["n2"].current_action = "gather" /\ npcs["n2"].memories = <<>>
    /\ resources["r2"].occupied_by = "n2"



\* ---------------------------------------------------------------------- C38
\* C38: at the end of every iteration, every resource node whose occupant is
\* a living agent is the action target of that agent, whose current action
\* is gather; so a living idle agent occupies no node and no living agent
\* occupies two nodes.
C38_OccupantGathers ==
    TickEnd =>
        \A r \in Resources :
            (resources[r].occupied_by \in NPCs /\ npcs[resources[r].occupied_by].is_alive)
                => /\ npcs[resources[r].occupied_by].current_action = "gather"
                   /\ npcs[resources[r].occupied_by].action_target = r
                   /\ npcs[resources[r].occupied_by].action_state # "idle"


\* at the end of an iteration one agent is the occupant of the node it is
\* gathering at, and the other is cooling with the wood of a completed gather,
\* which has released its node
C38_Witness ==
    /\ TickEnd
    /\ \E a \in NPCs : \E r \in Resources :
          /\ npcs[a].is_alive
          /\ resources[r].occupied_by = a
          /\ npcs[a].current_action = "gather" /\ npcs[a].action_target = r
          /\ \E o \in NPCs \ {a} :
                 /\ npcs[o].action_state = "cooling"
                 /\ npcs[o].inventory["wood"] > 0
                 /\ \A q \in Resources : resources[q].occupied_by # o



\* ---------------------------------------------------------------------- C39
\* the active conversations that list agent a as a participant
ConversationsWith(a) ==
    {c \in active_conversations : a \in SeqToSet(c.participants)}

C40_StartsAfterClientReady ==
    [][/\ waiting_for_client =>
             /\ ~is_running /\ ~is_running'
             /\ ~InMainLoop /\ ~InMainLoop'
             /\ game' = game
       /\ (~is_running /\ is_running') =>
             (~waiting_for_client /\ loop = "waiting" /\ loop' = "head")
       /\ (~InMainLoop /\ InMainLoop') =>
             (~waiting_for_client /\ loop = "waiting" /\ is_running')
       /\ InMainLoop => InMainLoop'
       /\ ~waiting_for_client => ~waiting_for_client']_vars

\* the client-ready signal came while start_game was still broadcasting the
\* initial state; the loop then started and has completed an iteration
C40_Witness ==
    /\ ~waiting_for_client
    /\ is_running /\ ~stopped
    /\ loop = "tick" /\ ticks = 1 /\ pc = "npcs"

====
